---- MODULE Spec2Model ----
(***************************************************************************)
(* A model of the `verify` crate: the schema engine of                     *)
(* verify/src/impls/schemars/schema.rs driven through the serde adapter of *)
(* verify/src/serde.rs, with the span combination rules of                 *)
(* verify/src/span.rs.                                                     *)
(*                                                                         *)
(* Encodings.  Option<T> is a sequence of length at most one.  A tagged    *)
(* union is a pair <<kind, payload>>: the kind is compared first, so two   *)
(* values of different kinds are always comparable.  Result<(), Errors> is *)
(* a record [ok, errs]; Err carries its Errors collection in errs.         *)
(***************************************************************************)
EXTENDS Integers, Sequences, FiniteSets, TLC

VARIABLES
    root,         \* RootSchema.schema, the root schema node (a SchemaObject)
    definitions,  \* RootSchema.definitions, name -> Schema
    arg_value,    \* the value handed to the last verify_value call (Option)
    arg_span,     \* the parent span handed to the last call (Option<Keys>)
    result,       \* what the last call returned (Option<Result>)
    pc,           \* "idle" before the first call, "done" after a call
    self_check,   \* what RootSchema::verify returned for the document (Option)
    stack,        \* the validate_inner / verify_schema activations in flight
    cursor,       \* a SchemaValidator driven through the Validator protocol
    phase,        \* where the protocol stands on that cursor
    outcome,      \* what the last protocol call returned (Option<Result>)
    calls,        \* the protocol calls made on the cursor so far
    given,        \* the value a Validate::validate call is made on (Option)
    inner,        \* the SpannedInner of that call: as built, then as it ended
    judged,       \* what that validate call returned (Option<Result>)
    last_new_span, \* the NewSpan last applied with use_span (Option)
    span_self,    \* the receiver of a SpanExt::combine call
    span_arg,     \* its argument
    span_out      \* the receiver after the call (Option<Option<Keys>>)

verifyVars == <<root, arg_value, arg_span, result, pc, self_check, stack>>
protocolVars == <<cursor, phase, outcome, calls>>
adapterVars == <<given, inner, judged, last_new_span>>
spanVars == <<span_self, span_arg, span_out>>

vars == <<root, definitions, arg_value, arg_span, result, pc, self_check,
          stack,
          cursor, phase, outcome, calls, given, inner, judged,
          last_new_span,
          span_self, span_arg, span_out>>

\* `let x = v; ..`: v is computed once, before what follows, and bound in
\* it (the test makes the evaluation of v come first)
LetIn(v, F(_)) == IF v = v THEN F(v) ELSE F(v)

-----------------------------------------------------------------------------
(* Option, Result and small helpers *)

None == <<>>
Some(x) == <<x>>
IsSome(o) == Len(o) > 0
IsNone(o) == Len(o) = 0

Kind(t) == t[1]
Payload(t) == t[2]

Ok == [ok |-> TRUE, errs |-> <<>>]
Err(e) == [ok |-> FALSE, errs |-> e]

RECURSIVE Concat(_)
Concat(ss) == IF ss = <<>> THEN <<>> ELSE Head(ss) \o Concat(Tail(ss))

-----------------------------------------------------------------------------
(* span.rs *)

\* impl SpanExt for Option<T>: combine(&mut self, span)
combine(self, sp) ==
    IF IsSome(sp)
    THEN IF IsSome(self) THEN Some(self[1] \o sp[1]) ELSE sp
    ELSE None

\* SpanExt::combined: the combination, returned instead of stored
combined(self, sp) == combine(self, sp)

-----------------------------------------------------------------------------
(* errors.rs *)

Error(meta, sp, val) == [meta |-> meta, span |-> sp, value |-> val]
one(e) == <<e>>

Never == <<"Never", <<>>>>
UnknownProperty == <<"UnknownProperty", <<>>>>
MissingDefinition(name) == <<"MissingDefinition", name>>
ExternalReference(r) == <<"ExternalReference", r>>
InvalidPattern(p) == <<"InvalidPattern", p>>
KeyNotString == <<"KeyNotString", <<>>>>
InvalidType(expected) == <<"InvalidType", expected>>
InvalidEnumValue(expected) == <<"InvalidEnumValue", expected>>
NotMultipleOf(m) == <<"NotMultipleOf", m>>
LessThanExpected(min, exclusive) == <<"LessThanExpected", <<min, exclusive>>>>
MoreThanExpected(max, exclusive) == <<"MoreThanExpected", <<max, exclusive>>>>
NoPatternMatch(p) == <<"NoPatternMatch", p>>
TooLong(n) == <<"TooLong", n>>
TooShort(n) == <<"TooShort", n>>
NoneValid(exclusive, schemas, errors) ==
    <<"NoneValid", [exclusive |-> exclusive, schemas |-> schemas, errors |-> errors]>>
MoreThanOneValid(schemas, matched) ==
    <<"MoreThanOneValid", [schemas |-> schemas, matched |-> matched]>>
ValidNot(matched) == <<"ValidNot", matched>>
NotUnique(first, duplicate) == <<"NotUnique", <<first, duplicate>>>>
MustContain(schema) == <<"MustContain", schema>>
NotEnoughItems(min) == <<"NotEnoughItems", min>>
TooManyItems(max) == <<"TooManyItems", max>>
NotEnoughProperties(min) == <<"NotEnoughProperties", min>>
TooManyProperties(max) == <<"TooManyProperties", max>>
RequiredProperty(name) == <<"RequiredProperty", name>>

-----------------------------------------------------------------------------
(* The schema document (schemars::schema), as the engine reads it.          *)
(* Map<String, T> and Set<String> are BTreeMap and BTreeSet: association    *)
(* lists and lists kept in ascending key order, without duplicates.         *)

get(m, k) ==
    IF \E i \in 1..Len(m) : m[i][1] = k
    THEN Some(m[CHOOSE i \in 1..Len(m) : m[i][1] = k][2])
    ELSE None

\* a remove that leaves the set as it was
remove_none(set, k) == set

\* BTreeSet::remove
remove(set, k) == SelectSeq(set, LAMBDA x : x # k)

Bool(b) == <<"Bool", b>>
Object(o) == <<"Object", o>>

NoSubschemas ==
    [all_of |-> None, any_of |-> None, one_of |-> None, not |-> None,
     if_schema |-> None, then_schema |-> None, else_schema |-> None]

NoNumber ==
    [multiple_of |-> None, maximum |-> None, exclusive_maximum |-> None,
     minimum |-> None, exclusive_minimum |-> None]

NoString == [max_length |-> None, min_length |-> None, pattern |-> None]

NoArray ==
    [items |-> None, additional_items |-> None, max_items |-> None,
     min_items |-> None, unique_items |-> None, contains |-> None]

NoObject ==
    [max_properties |-> None, min_properties |-> None, required |-> <<>>,
     properties |-> <<>>, pattern_properties |-> <<>>,
     additional_properties |-> None, property_names |-> None]

\* SchemaObject::default()
SchemaObject ==
    [metadata |-> None, instance_type |-> None, enum_values |-> None,
     subschemas |-> None, number |-> None, string |-> None, array |-> None,
     object |-> None, reference |-> None]

\* SingleOrVec<Schema> of ArrayValidation.items
Single(s) == <<"Single", s>>
Vec(ss) == <<"Vec", ss>>

-----------------------------------------------------------------------------
(* Strings.  A reference is a string cut into chunks, so that starts_with  *)
(* and trim_start_matches can be computed; a chunk is never cut by the     *)
(* prefix.  The regex crate is a table over the patterns and strings of    *)
(* the model.                                                              *)

DefinitionsPrefix == "#/definitions/"

RECURSIVE Join(_)
Join(chunks) == IF chunks = <<>> THEN "" ELSE Head(chunks) \o Join(Tail(chunks))

starts_with(path, prefix) == Len(path) > 0 /\ path[1] = prefix

RECURSIVE trim_start_matches(_, _)
trim_start_matches(path, prefix) ==
    IF starts_with(path, prefix)
    THEN trim_start_matches(Tail(path), prefix)
    ELSE path

\* fn local_definition(path: &str) -> Option<&str>
local_definition(path) ==
    IF ~starts_with(path, DefinitionsPrefix)
    THEN None
    ELSE Some(Join(trim_start_matches(path, DefinitionsPrefix)))

BadPattern == "[[[["
RegexCompiles(p) == p # BadPattern
RegexIsMatch(p, s) ==
    CASE p = "^a" -> s \in {"a", "ab"}
      [] p = "^b" -> s \in {"b", "bb"}
      [] p = "b$" -> s \in {"b", "ab", "bb"}
      [] OTHER -> FALSE

-----------------------------------------------------------------------------
(* serde_json::Value, the values handed to the adapter.  A map is a list   *)
(* of <<key, value>> entries; a key is itself a value.                     *)

NullV == <<"Null", <<>>>>
BoolV(b) == <<"Bool", b>>
IntV(n) == <<"Int", n>>
StrV(s) == <<"Str", s>>
SeqV(items) == <<"Seq", items>>
MapV(entries) == <<"Map", entries>>

\* other Serialize values: an enum's tuple variant and struct variant (a
\* struct variant's fields are <<key, value>> entries), a 128-bit integer
TupleVariantV(variant, items) == <<"TupleVariant", <<variant, items>>>>
StructVariantV(variant, entries) == <<"StructVariant", <<variant, entries>>>>
I128V(n) == <<"I128", n>>

-----------------------------------------------------------------------------
(* schema.rs: the validator cursor and its span methods *)

\* SchemaValidator::new
new(schema) ==
    [schema |-> schema,
     tagged_allow |-> FALSE,
     parent_span |-> None,
     span |-> None,
     combined_span |-> None,
     arr_item_count |-> 0,
     arr_hashes |-> <<>>,
     arr_contains |-> None,
     obj_required |-> <<>>,
     obj_prop_count |-> 0,
     obj_last_key |-> None,
     obj_last_key_span |-> None]

\* SchemaValidator::combine_spans
combine_spans(self) ==
    [self EXCEPT !.combined_span =
        IF IsSome(self.span)
        THEN combine(self.parent_span, self.span)
        ELSE self.parent_span]

\* SchemaValidator::with_spans
with_spans(self, parent, sp) ==
    combine_spans([self EXCEPT !.parent_span = parent, !.span = sp])

\* SchemaValidator::with_parent_span
with_parent_span(self, sp) ==
    combine_spans([self EXCEPT !.parent_span = sp])

\* Validator::with_span, ValidateSeq::with_span, ValidateMap::with_span
with_span(self, sp) ==
    combine_spans(
        IF IsSome(sp)
        THEN [self EXCEPT !.span = sp]
        ELSE [self EXCEPT !.parent_span = None, !.span = None])

-----------------------------------------------------------------------------
(* The macros of impls/schemars/macros.rs, which schema.rs expands at every *)
(* leaf check.  Each is an expression of type Result; schema.rs applies `?` *)
(* to it.                                                                   *)

\* not_bool_schema!: the early return taken for a boolean schema
not_bool_schema(schema, sp) ==
    IF Payload(schema) THEN Ok ELSE Err(one(Error(None, sp, Never)))

TypeAllowed(expected, t) ==
    IF Kind(t) = "Single"
    THEN Payload(t) = expected
    ELSE \E i \in 1..Len(Payload(t)) : Payload(t)[i] = expected

\* check_type!
check_type(expected, s, sp) ==
    IF IsNone(s.instance_type) \/ TypeAllowed(expected, s.instance_type[1])
    THEN Ok
    ELSE Err(one(Error(s.metadata, sp, InvalidType(s.instance_type[1]))))

\* check_enum!
check_enum(v, s, sp) ==
    IF IsNone(s.enum_values)
       \/ \E i \in 1..Len(s.enum_values[1]) : s.enum_values[1][i] = v
    THEN Ok
    ELSE Err(one(Error(s.metadata, sp, InvalidEnumValue(s.enum_values[1]))))

FromErrors(errs) == IF errs = <<>> THEN Ok ELSE Err(errs)

\* check_number!
check_number(v, s, sp) ==
    IF IsNone(s.number) THEN Ok
    ELSE LET n == s.number[1]
             E(val) == <<Error(s.metadata, sp, val)>>
         IN FromErrors(
              (IF IsSome(n.multiple_of) /\ n.multiple_of[1] # 0
                  /\ v % n.multiple_of[1] # 0
               THEN E(NotMultipleOf(n.multiple_of[1])) ELSE <<>>)
           \o (IF IsSome(n.minimum) /\ v < n.minimum[1]
               THEN E(LessThanExpected(n.minimum[1], FALSE)) ELSE <<>>)
           \o (IF IsSome(n.exclusive_minimum) /\ v <= n.exclusive_minimum[1]
               THEN E(LessThanExpected(n.exclusive_minimum[1], TRUE)) ELSE <<>>)
           \o (IF IsSome(n.maximum) /\ v > n.maximum[1]
               THEN E(MoreThanExpected(n.maximum[1], FALSE)) ELSE <<>>)
           \o (IF IsSome(n.exclusive_maximum) /\ v >= n.exclusive_maximum[1]
               THEN E(MoreThanExpected(n.exclusive_maximum[1], TRUE)) ELSE <<>>))

\* check_string!
check_string(v, s, sp) ==
    IF IsNone(s.string) THEN Ok
    ELSE LET st == s.string[1]
             E(val) == <<Error(s.metadata, sp, val)>>
         IN FromErrors(
              (IF IsNone(st.pattern) THEN <<>>
               ELSE IF ~RegexCompiles(st.pattern[1])
                    THEN E(InvalidPattern(st.pattern[1]))
                    ELSE IF ~RegexIsMatch(st.pattern[1], v)
                         THEN E(NoPatternMatch(st.pattern[1])) ELSE <<>>)
           \o (IF IsSome(st.max_length) /\ Len(v) > st.max_length[1]
               THEN E(TooLong(st.max_length[1])) ELSE <<>>)
           \o (IF IsSome(st.min_length) /\ Len(v) < st.min_length[1]
               THEN E(TooShort(st.min_length[1])) ELSE <<>>))

\* the `?` operator: the first Err returns from the function
Try(r, rest) == IF r.ok THEN rest ELSE r

-----------------------------------------------------------------------------
(* schema.rs: impl Validator for SchemaValidator, the primitive judgments *)

validate_bool(self, v) ==
    IF Kind(self.schema) = "Bool"
    THEN not_bool_schema(self.schema, self.combined_span)
    ELSE LET s == Payload(self.schema) IN
         Try(check_type("Boolean", s, self.combined_span),
         Try(check_enum(BoolV(v), s, self.combined_span),
             Ok))

\* validate_i8 .. validate_u128: the same body for every integer width
validate_i64(self, v) ==
    IF Kind(self.schema) = "Bool"
    THEN not_bool_schema(self.schema, self.combined_span)
    ELSE LET s == Payload(self.schema) IN
         Try(check_type("Integer", s, self.combined_span),
         Try(check_enum(IntV(v), s, self.combined_span),
         Try(check_number(v, s, self.combined_span),
             Ok)))

validate_str(self, v) ==
    IF Kind(self.schema) = "Bool"
    THEN not_bool_schema(self.schema, self.combined_span)
    ELSE LET s == Payload(self.schema) IN
         Try(check_type("String", s, self.combined_span),
         Try(check_enum(StrV(v), s, self.combined_span),
         Try(check_string(v, s, self.combined_span),
             Ok)))

validate_unit(self) ==
    IF Kind(self.schema) = "Bool"
    THEN not_bool_schema(self.schema, self.combined_span)
    ELSE LET s == Payload(self.schema) IN
         Try(check_type("Null", s, self.combined_span),
             Ok)

-----------------------------------------------------------------------------
(* serde.rs: KeySpans, the Spans implementation that derives spans from    *)
(* map keys and sequence indices.  A NewSpan is a pair <<kind, span>>.     *)

Add(sp) == <<"Add", sp>>
Reset(sp) == <<"Reset", sp>>
NoChange == <<"NoChange", None>>

KeySpans == [is_seq |-> FALSE, item_index |-> 0]

\* impl Serializer for KeySerializer: the key as a string, if it has one
KeySerializer(key) ==
    CASE Kind(key) = "Str" -> Some(Payload(key))
      [] Kind(key) = "Int" -> Some(ToString(Payload(key)))
      [] OTHER -> None

\* KeySpans::key
KeySpans_key(spans, key) ==
    IF IsSome(KeySerializer(key))
    THEN Add(Some(<<KeySerializer(key)[1]>>))
    ELSE Add(Some(<<"???">>))

\* KeySpans::value; the pair <<NewSpan, the updated KeySpans>>
KeySpans_value(spans) ==
    IF spans.is_seq
    THEN <<Add(Some(<<ToString(spans.item_index)>>)),
           [spans EXCEPT !.item_index = @ + 1]>>
    ELSE <<NoChange, spans>>

\* KeySpans::unit
KeySpans_unit(spans) == KeySpans_value(spans)

\* KeySpans::map_start, map_end, seq_start, seq_end, descend
KeySpans_map_start(spans) == <<NoChange, spans>>
KeySpans_map_end(spans) == <<Add(None), spans>>
KeySpans_seq_start(spans) == <<NoChange, [spans EXCEPT !.is_seq = TRUE]>>
KeySpans_seq_end(spans) ==
    <<Add(None), [spans EXCEPT !.is_seq = FALSE, !.item_index = 0]>>
KeySpans_descend(spans) == KeySpans

\* Spanned { spans, span, value } and Spanned::new
Spanned(spans, sp, v) == [spans |-> spans, span |-> sp, value |-> v]
Spanned_new(v) == Spanned(KeySpans, None, v)

-----------------------------------------------------------------------------
(* serde.rs: HashSerializer, the byte stream fed to the uniqueness hasher. *)
(* DefaultHasher is taken to be injective on byte streams.                 *)

U64Bytes(n) == <<n, 0, 0, 0, 0, 0, 0, 0>>

StrBytes(str) ==
    CASE str = "" -> <<>>
      [] str = "a" -> <<97>>
      [] str = "b" -> <<98>>
      [] str = "c" -> <<99>>
      [] str = "ab" -> <<97, 98>>
      [] str = "bb" -> <<98, 98>>

RECURSIVE HashSerializer(_)
RECURSIVE HashSerializerAll(_, _)
HashSerializerAll(items, isMap) ==
    IF items = <<>> THEN <<>>
    ELSE (IF isMap
          THEN HashSerializer(Head(items)[1]) \o HashSerializer(Head(items)[2])
          ELSE <<1>> \o HashSerializer(Head(items)))
         \o HashSerializerAll(Tail(items), isMap)

HashSerializer(v) ==
    CASE Kind(v) = "Null" -> <<>>
      [] Kind(v) = "Bool" -> <<IF Payload(v) THEN 1 ELSE 0>>
      [] Kind(v) = "Int" -> U64Bytes(Payload(v))
      [] Kind(v) = "Str" -> StrBytes(Payload(v))
      [] Kind(v) = "Seq" -> HashSerializerAll(Payload(v), FALSE)
      [] Kind(v) = "Map" -> HashSerializerAll(Payload(v), TRUE)

-----------------------------------------------------------------------------
(* schema.rs: SchemaValidator::validate_inner and validate_subschemas.     *)
(* `value` is a Spanned value; `validate` is its Validate implementation.  *)

RECURSIVE validate_inner(_, _)
RECURSIVE validate(_, _)

\* the metadata pushed for a branch: o.metadata.clone(), None for a boolean
metadata_of(s) == IF Kind(s) = "Object" THEN Payload(s).metadata ELSE None

\* SchemaValidator::new(self.defs, s.into())
\*     .with_spans(self.parent_span.clone(), self.span.clone())
\*     .validate_inner(value)
validate_branch(self, s, value) ==
    validate_inner(with_spans(new(s), self.parent_span, self.span), value)

\* all_of that stops at the first branch that fails
all_of_errors_short_circuit(self, sub, value) ==
    IF IsNone(sub.all_of) THEN <<>>
    ELSE LET all_of == sub.all_of[1]
             rs == [i \in 1..Len(all_of) |-> validate_branch(self, all_of[i], value)]
             failed == {i \in 1..Len(all_of) : ~rs[i].ok}
         IN IF failed = {} THEN <<>>
            ELSE rs[CHOOSE i \in failed : \A j \in failed : i <= j].errs

\* validate_subschemas: `if let Some(all_of) = &sub.all_of { .. }`
all_of_errors(self, sub, value) ==
    IF IsNone(sub.all_of) THEN <<>>
    ELSE LET all_of == sub.all_of[1] IN
         Concat([i \in 1..Len(all_of) |->
                    validate_branch(self, all_of[i], value).errs])

\* the `for s in any_of` / `for s in one_of` loop: every branch's outcome,
\* with the metadata pushed to `validated` when it is Ok
branch_outcomes(self, branches, value) ==
    [i \in 1..Len(branches) |->
        [r |-> validate_branch(self, branches[i], value),
         meta |-> metadata_of(branches[i])]]

validated_of(outcomes) ==
    LET oks == SelectSeq(outcomes, LAMBDA o : o.r.ok)
    IN [i \in 1..Len(oks) |-> oks[i].meta]

inner_errors_of(outcomes) ==
    LET errs == SelectSeq(outcomes, LAMBDA o : ~o.r.ok)
    IN [i \in 1..Len(errs) |-> errs[i].r.errs]

schemas_of(branches) == [i \in 1..Len(branches) |-> metadata_of(branches[i])]

\* any_of that reports NoneValid as soon as one branch fails
any_of_errors_any_failure(self, schema, sub, value) ==
    IF IsNone(sub.any_of) THEN <<>>
    ELSE LET any_of == sub.any_of[1]
             outcomes == branch_outcomes(self, any_of, value)
         IN IF inner_errors_of(outcomes) # <<>>
            THEN <<Error(schema.metadata, value.span,
                         NoneValid(FALSE, schemas_of(any_of),
                                   inner_errors_of(outcomes)))>>
            ELSE <<>>

\* validate_subschemas: `if let Some(any_of) = &sub.any_of { .. }`
any_of_errors(self, schema, sub, value) ==
    IF IsNone(sub.any_of) THEN <<>>
    ELSE LET any_of == sub.any_of[1]
             outcomes == branch_outcomes(self, any_of, value)
         IN IF validated_of(outcomes) = <<>>
            THEN <<Error(schema.metadata, value.span,
                         NoneValid(FALSE, schemas_of(any_of),
                                   inner_errors_of(outcomes)))>>
            ELSE <<>>

\* one_of that names every listed branch as matched
one_of_errors_all_matched(self, schema, sub, value) ==
    IF IsNone(sub.one_of) THEN <<>>
    ELSE LET one_of == sub.one_of[1]
             outcomes == branch_outcomes(self, one_of, value)
             validated == validated_of(outcomes)
         IN IF validated = <<>>
            THEN <<Error(schema.metadata, value.span,
                         NoneValid(TRUE, schemas_of(one_of),
                                   inner_errors_of(outcomes)))>>
            ELSE IF Len(validated) > 1
                 THEN <<Error(schema.metadata, value.span,
                              MoreThanOneValid(schemas_of(one_of),
                                               schemas_of(one_of)))>>
                 ELSE <<>>

\* validate_subschemas: `if let Some(one_of) = &sub.one_of { .. }`
one_of_errors(self, schema, sub, value) ==
    IF IsNone(sub.one_of) THEN <<>>
    ELSE LET one_of == sub.one_of[1]
             outcomes == branch_outcomes(self, one_of, value)
             validated == validated_of(outcomes)
         IN IF validated = <<>>
            THEN <<Error(schema.metadata, value.span,
                         NoneValid(TRUE, schemas_of(one_of),
                                   inner_errors_of(outcomes)))>>
            ELSE IF Len(validated) > 1
                 THEN <<Error(schema.metadata, value.span,
                              MoreThanOneValid(schemas_of(one_of), validated))>>
                 ELSE <<>>

\* validate_subschemas: `if let (Some(sub_if), Some(sub_then)) = ..`
if_then_else_errors(self, sub, value) ==
    IF IsSome(sub.if_schema) /\ IsSome(sub.then_schema)
    THEN IF validate_branch(self, sub.if_schema[1], value).ok
         THEN validate_branch(self, sub.then_schema[1], value).errs
         ELSE IF IsSome(sub.else_schema)
              THEN validate_branch(self, sub.else_schema[1], value).errs
              ELSE <<>>
    ELSE <<>>

\* not that hands on the errors of a sub-schema that failed
not_errors_leaking(self, schema, sub, value) ==
    IF IsNone(sub.not) THEN <<>>
    ELSE LET r == validate_branch(self, sub.not[1], value) IN
         IF r.ok
         THEN <<Error(schema.metadata, value.span,
                      ValidNot(metadata_of(sub.not[1])))>>
         ELSE r.errs

\* validate_subschemas: `if let Some(not) = &sub.not { .. }`
not_errors(self, schema, sub, value) ==
    IF IsSome(sub.not) /\ validate_branch(self, sub.not[1], value).ok
    THEN <<Error(schema.metadata, value.span,
                 ValidNot(metadata_of(sub.not[1])))>>
    ELSE <<>>

\* validate_subschemas without its `errors.is_empty()` test
validate_subschemas_unchecked(self, schema, value) ==
    IF IsSome(schema.subschemas)
    THEN LET sub == schema.subschemas[1] IN
         Err(all_of_errors(self, sub, value)
             \o any_of_errors(self, schema, sub, value)
             \o one_of_errors(self, schema, sub, value)
             \o if_then_else_errors(self, sub, value)
             \o not_errors(self, schema, sub, value))
    ELSE Ok

\* SchemaValidator::validate_subschemas
validate_subschemas(self, schema, value) ==
    IF IsSome(schema.subschemas)
    THEN LET sub == schema.subschemas[1]
             errors == all_of_errors(self, sub, value)
                    \o any_of_errors(self, schema, sub, value)
                    \o one_of_errors(self, schema, sub, value)
                    \o if_then_else_errors(self, sub, value)
                    \o not_errors(self, schema, sub, value)
         IN IF errors = <<>> THEN Ok ELSE Err(errors)
    ELSE Ok

\* resolve_reference that still judges the node itself when the name is missing
resolve_reference_then_node(self, s, value) ==
    LET r == s.reference[1]
        value_span == combine(self.combined_span, value.span)
        local == local_definition(r)
        node == validate_inner([self EXCEPT !.schema =
                                   Object([s EXCEPT !.reference = None])], value)
    IN IF IsSome(local)
       THEN IF IsSome(get(definitions, local[1]))
            THEN validate_inner(
                    with_spans(new(get(definitions, local[1])[1]),
                               self.parent_span, value.span),
                    value)
            ELSE Err(one(Error(s.metadata, value_span,
                               MissingDefinition(local[1]))) \o node.errs)
       ELSE Err(one(Error(s.metadata, value_span, ExternalReference(r))))

\* validate_inner: `if let Some(r) = &s.reference { .. }`, every arm returns
resolve_reference(self, s, value) ==
    LET r == s.reference[1]
        value_span == combine(self.combined_span, value.span)
        local == local_definition(r)
    IN IF IsSome(local)
       THEN IF IsSome(get(definitions, local[1]))
            THEN validate_inner(
                    with_spans(new(get(definitions, local[1])[1]),
                               self.parent_span, value.span),
                    value)
            ELSE Err(one(Error(s.metadata, value_span,
                               MissingDefinition(local[1]))))
       ELSE Err(one(Error(s.metadata, value_span, ExternalReference(r))))

\* a leaf judgment located by the value's own span alone
validate_leaf_own_span(self, s, value) ==
    validate(value, with_spans(new(Object(s)), None, value.span))

\* validate_inner: value.validate(SchemaValidator::new(&self.defs, s)
\*     .with_spans(self.parent_span.clone(), value.span()))
validate_leaf(self, s, value) ==
    validate(value, with_spans(new(Object(s)), self.parent_span, value.span))

\* validate_inner without the early return for a node with no instance type
validate_inner_always_leaf(self, value) ==
    IF Kind(self.schema) = "Bool"
    THEN not_bool_schema(self.schema, self.combined_span)
    ELSE LET s == Payload(self.schema) IN
         IF IsSome(s.reference)
         THEN resolve_reference(self, s, value)
         ELSE LET errors == validate_subschemas(self, s, value)
                  e == validate_leaf(self, s, value)
              IN IF e.ok THEN errors
                 ELSE IF errors.ok THEN Err(e.errs)
                      ELSE Err(errors.errs \o e.errs)

\* SchemaValidator::validate_inner
validate_inner(self, value) ==
    IF Kind(self.schema) = "Bool"
    THEN not_bool_schema(self.schema, self.combined_span)
    ELSE LET s == Payload(self.schema) IN
         IF IsSome(s.reference)
         THEN resolve_reference(self, s, value)
         ELSE LetIn(validate_subschemas(self, s, value), LAMBDA errors :
              IF IsNone(s.instance_type)
              THEN errors
              ELSE LetIn(validate_leaf(self, s, value), LAMBDA e :
                   IF e.ok THEN errors
                   ELSE IF errors.ok THEN Err(e.errs)
                        ELSE Err(errors.errs \o e.errs)))

-----------------------------------------------------------------------------
(* schema.rs: validate_seq / validate_map and the sequence and map         *)
(* sub-validators.  A method taking `&mut self` returns the pair           *)
(* [v |-> the cursor afterwards, r |-> its Result].                        *)

\* Validator::validate_seq; Ok carries the sub-validator in v
validate_seq(self, len) ==
    IF Kind(self.schema) = "Bool"
    THEN IF Payload(self.schema)
         THEN [ok |-> TRUE, errs |-> <<>>, v |-> self]
         ELSE [ok |-> FALSE, v |-> self,
               errs |-> not_bool_schema(self.schema, self.combined_span).errs]
    ELSE LET s == Payload(self.schema)
             t == check_type("Array", s, self.combined_span)
         IN IF ~t.ok
            THEN [ok |-> FALSE, errs |-> t.errs, v |-> self]
            ELSE [ok |-> TRUE, errs |-> <<>>,
                  v |-> [self EXCEPT
                           !.arr_contains =
                               IF IsSome(s.array) /\ IsSome(s.array[1].contains)
                               THEN s.array[1].contains ELSE @,
                           !.parent_span = self.combined_span]]

\* Validator::validate_map; Ok carries the sub-validator in v
validate_map(self, len) ==
    IF Kind(self.schema) = "Bool"
    THEN IF Payload(self.schema)
         THEN [ok |-> TRUE, errs |-> <<>>, v |-> self]
         ELSE [ok |-> FALSE, v |-> self,
               errs |-> not_bool_schema(self.schema, self.combined_span).errs]
    ELSE LET s == Payload(self.schema)
             t == check_type("Object", s, self.combined_span)
         IN IF ~t.ok
            THEN [ok |-> FALSE, errs |-> t.errs, v |-> self]
            ELSE [ok |-> TRUE, errs |-> <<>>,
                  v |-> [self EXCEPT
                           !.obj_required =
                               IF IsSome(s.object)
                               THEN s.object[1].required ELSE @,
                           !.parent_span = self.combined_span]]

\* validate_tag: `for (k, v) in obj.pattern_properties.iter() { .. }`; None
\* when the loop ends without returning, else the error of `?` or the match
RECURSIVE tag_pattern_properties(_, _, _, _)
tag_pattern_properties(s, patterns, key, tag_span) ==
    IF patterns = <<>> THEN None
    ELSE LET k == Head(patterns)[1]
             v == Head(patterns)[2]
         IN IF ~RegexCompiles(k)
            THEN Some(<<"Err", one(Error(s.metadata, tag_span,
                                         InvalidPattern(k)))>>)
            ELSE IF RegexIsMatch(k, key)
                 THEN Some(<<"Schema", v>>)
                 ELSE tag_pattern_properties(s, Tail(patterns), key, tag_span)

\* Validator::validate_tag; tag.to_string() is the tag's string
validate_tag(self, tag) ==
    IF Kind(self.schema) = "Bool"
    THEN [v |-> self, r |-> not_bool_schema(self.schema, self.combined_span)]
    ELSE LET s == Payload(self.schema)
             t == check_type("Object", s, self.combined_span)
             key == Payload(tag.value)
             tag_span == combined(self.parent_span, tag.span)
         IN IF ~t.ok THEN [v |-> self, r |-> t]
            ELSE IF IsNone(s.object)
                 THEN [v |-> [self EXCEPT !.tagged_allow = TRUE], r |-> Ok]
                 ELSE LET obj == s.object[1]
                          prop == get(obj.properties, key)
                          pat == tag_pattern_properties(
                                     s, obj.pattern_properties, key, tag_span)
                      IN IF IsSome(prop)
                         THEN [v |-> [self EXCEPT !.schema = prop[1]], r |-> Ok]
                         ELSE IF IsSome(pat)
                         THEN IF Kind(pat[1]) = "Err"
                              THEN [v |-> self, r |-> Err(Payload(pat[1]))]
                              ELSE [v |-> [self EXCEPT
                                             !.schema = Payload(pat[1])],
                                    r |-> Ok]
                         ELSE IF IsSome(obj.additional_properties)
                         THEN [v |-> [self EXCEPT
                                        !.schema = obj.additional_properties[1]],
                               r |-> Ok]
                         ELSE [v |-> [self EXCEPT !.tagged_allow = TRUE],
                               r |-> Ok]

\* SchemaValidator::new(&self.defs, s.into())
\*     .with_parent_span(self.parent_span.clone()).validate_inner(value)
validate_child(self, s, value) ==
    validate_inner(with_parent_span(new(s), self.parent_span), value)

\* HashMap::insert: the value stored for an existing key is replaced
insert(m, k, v) ==
    IF \E i \in 1..Len(m) : m[i][1] = k
    THEN [i \in 1..Len(m) |-> IF m[i][1] = k THEN <<k, v>> ELSE m[i]]
    ELSE Append(m, <<k, v>>)

\* an item check that applies the first listed schema at every position
item_errors_first_listed(self, arr, value) ==
    IF IsNone(arr.items) THEN <<>>
    ELSE LET items == arr.items[1] IN
         IF Kind(items) = "Single"
         THEN validate_child(self, Payload(items), value).errs
         ELSE validate_child(self, Payload(items)[1], value).errs

\* validate_element: the applicable item schema
item_errors(self, arr, value) ==
    IF IsNone(arr.items) THEN <<>>
    ELSE LET items == arr.items[1] IN
         IF Kind(items) = "Single"
         THEN validate_child(self, Payload(items), value).errs
         ELSE IF self.arr_item_count <= Len(Payload(items))
              THEN validate_child(self, Payload(items)[self.arr_item_count],
                                  value).errs
              ELSE IF IsSome(arr.additional_items)
                   THEN validate_child(self, arr.additional_items[1], value).errs
                   ELSE <<>>

\* ValidateSeq::validate_element
validate_element(self, value) ==
    IF self.tagged_allow THEN [v |-> self, r |-> Ok]
    ELSE LET s1 == [self EXCEPT !.arr_item_count = @ + 1] IN
         IF Kind(s1.schema) = "Bool"
         THEN [v |-> s1, r |-> not_bool_schema(s1.schema, s1.combined_span)]
         ELSE LET s == Payload(s1.schema)
                  value_span == combined(s1.parent_span, value.span)
              IN IF IsNone(s.array) THEN [v |-> s1, r |-> Ok]
                 ELSE LET arr == s.array[1]
                          s2 == IF IsSome(s1.arr_contains)
                                   /\ validate_child(s1, s1.arr_contains[1],
                                                     value).ok
                                THEN [s1 EXCEPT !.arr_contains = None]
                                ELSE s1
                          unique == arr.unique_items = Some(TRUE)
                          h == HashSerializer(value.value)
                          existing == get(s2.arr_hashes, h)
                          s3 == IF unique
                                THEN [s2 EXCEPT !.arr_hashes =
                                                   insert(@, h, value_span)]
                                ELSE s2
                          errors ==
                              item_errors(s1, arr, value)
                              \o (IF unique /\ IsSome(existing)
                                  THEN <<Error(s.metadata, value_span,
                                               NotUnique(existing[1],
                                                         value_span))>>
                                  ELSE <<>>)
                      IN [v |-> s3, r |-> FromErrors(errors)]

\* an end that reports the cardinality errors only
ValidateSeq_end_cardinality_only(self) ==
    IF self.tagged_allow THEN Ok
    ELSE IF Kind(self.schema) = "Bool"
         THEN not_bool_schema(self.schema, self.combined_span)
         ELSE LET s == Payload(self.schema)
                  E(val) == <<Error(s.metadata, self.combined_span, val)>>
              IN FromErrors(
                   (IF IsSome(s.array) /\ IsSome(s.array[1].min_items)
                       /\ self.arr_item_count < s.array[1].min_items[1]
                    THEN E(NotEnoughItems(s.array[1].min_items[1])) ELSE <<>>)
                \o (IF IsSome(s.array) /\ IsSome(s.array[1].max_items)
                       /\ self.arr_item_count > s.array[1].max_items[1]
                    THEN E(TooManyItems(s.array[1].max_items[1])) ELSE <<>>))

\* ValidateSeq::end
ValidateSeq_end(self) ==
    IF self.tagged_allow THEN Ok
    ELSE IF Kind(self.schema) = "Bool"
         THEN not_bool_schema(self.schema, self.combined_span)
         ELSE LET s == Payload(self.schema)
                  E(val) == <<Error(s.metadata, self.combined_span, val)>>
              IN FromErrors(
                   (IF IsSome(self.arr_contains)
                    THEN E(MustContain(metadata_of(self.arr_contains[1])))
                    ELSE <<>>)
                \o (IF IsSome(s.array) /\ IsSome(s.array[1].min_items)
                       /\ self.arr_item_count < s.array[1].min_items[1]
                    THEN E(NotEnoughItems(s.array[1].min_items[1])) ELSE <<>>)
                \o (IF IsSome(s.array) /\ IsSome(s.array[1].max_items)
                       /\ self.arr_item_count > s.array[1].max_items[1]
                    THEN E(TooManyItems(s.array[1].max_items[1])) ELSE <<>>))

\* a validate_key that rejects the key in every mode
validate_key_strict(self, key) ==
    [v |-> self,
     r |-> Err(one(Error(metadata_of(self.schema), key.span, KeyNotString)))]

\* ValidateMap::validate_key
validate_key(self, key) ==
    IF self.tagged_allow THEN [v |-> self, r |-> Ok]
    ELSE [v |-> self,
          r |-> Err(one(Error(metadata_of(self.schema), key.span,
                              KeyNotString)))]

\* ValidateMap::validate_string_key; key.to_string() is the key's string
validate_string_key(self, key) ==
    IF self.tagged_allow THEN [v |-> self, r |-> Ok]
    ELSE LET s1 == [self EXCEPT !.obj_prop_count = @ + 1] IN
         IF Kind(s1.schema) = "Bool"
         THEN [v |-> s1, r |-> not_bool_schema(s1.schema, s1.combined_span)]
         ELSE LET s == Payload(s1.schema)
                  key_span == combined(s1.parent_span, key.span)
                  key_string == Payload(key.value)
                  s2 == [s1 EXCEPT !.obj_required = remove(@, key_string),
                                   !.obj_last_key = Some(key_string),
                                   !.obj_last_key_span = key.span]
              IN IF IsSome(s.object) /\ IsSome(s.object[1].property_names)
                 THEN [v |-> s2,
                       r |-> validate_inner(
                               with_spans(new(s.object[1].property_names[1]),
                                          s2.parent_span, key_span),
                               key)]
                 ELSE [v |-> s2, r |-> Ok]

RECURSIVE pattern_properties_result_skipping(_, _, _, _, _)
RECURSIVE pattern_properties_result(_, _, _, _, _)

\* a pattern loop that passes over a pattern that does not compile
pattern_properties_result_skipping(self, s, patterns, key, value) ==
    IF patterns = <<>> THEN None
    ELSE LET k == Head(patterns)[1]
             v == Head(patterns)[2]
         IN IF RegexCompiles(k) /\ RegexIsMatch(k, key)
            THEN Some(validate_child(self, v, value))
            ELSE pattern_properties_result_skipping(self, s, Tail(patterns),
                                                    key, value)

\* validate_value: `for (k, v) in obj.pattern_properties.iter() { .. }`;
\* None when the loop ends without returning
pattern_properties_result(self, s, patterns, key, value) ==
    IF patterns = <<>> THEN None
    ELSE LET k == Head(patterns)[1]
             v == Head(patterns)[2]
         IN IF ~RegexCompiles(k)
            THEN Some(Err(one(Error(s.metadata, value.span, InvalidPattern(k)))))
            ELSE IF RegexIsMatch(k, key)
                 THEN Some(validate_child(self, v, value))
                 ELSE pattern_properties_result(self, s, Tail(patterns),
                                                key, value)

\* ValidateMap::validate_value
validate_value(self, value) ==
    IF self.tagged_allow THEN [v |-> self, r |-> Ok]
    ELSE IF Kind(self.schema) = "Bool"
         THEN [v |-> self,
               r |-> not_bool_schema(self.schema, self.combined_span)]
         ELSE LET s == Payload(self.schema)
                  key == self.obj_last_key[1]
                  s1 == [self EXCEPT !.obj_last_key = None]
              IN IF IsNone(s.object) THEN [v |-> s1, r |-> Ok]
                 ELSE LET obj == s.object[1]
                          prop == get(obj.properties, key)
                          pat == pattern_properties_result(
                                     s1, s, obj.pattern_properties, key, value)
                          add == validate_child(s1, obj.additional_properties[1],
                                                value)
                      IN IF IsSome(prop)
                         THEN [v |-> s1, r |-> validate_child(s1, prop[1], value)]
                         ELSE IF IsSome(pat) THEN [v |-> s1, r |-> pat[1]]
                         ELSE IF IsSome(obj.additional_properties) /\ ~add.ok
                              THEN IF add.errs[1].value = Never
                                   THEN [v |-> [s1 EXCEPT
                                                  !.obj_last_key_span = None],
                                         r |-> Err(one(Error(
                                                 s.metadata,
                                                 s1.obj_last_key_span,
                                                 UnknownProperty)))]
                                   ELSE [v |-> s1, r |-> add]
                              ELSE [v |-> s1, r |-> Ok]

\* ValidateMap::end
ValidateMap_end(self) ==
    IF self.tagged_allow THEN Ok
    ELSE IF Kind(self.schema) = "Bool"
         THEN not_bool_schema(self.schema, self.combined_span)
         ELSE LET s == Payload(self.schema)
                  E(val) == <<Error(s.metadata, self.combined_span, val)>>
              IN FromErrors(
                   (IF IsSome(s.object) /\ IsSome(s.object[1].max_properties)
                       /\ self.obj_prop_count > s.object[1].max_properties[1]
                    THEN E(TooManyProperties(s.object[1].max_properties[1]))
                    ELSE <<>>)
                \o (IF IsSome(s.object) /\ IsSome(s.object[1].min_properties)
                       /\ self.obj_prop_count < s.object[1].min_properties[1]
                    THEN E(NotEnoughProperties(s.object[1].min_properties[1]))
                    ELSE <<>>)
                \o Concat([i \in 1..Len(self.obj_required) |->
                              E(RequiredProperty(self.obj_required[i]))]))

\* ValidateMap::string_key_required
string_key_required(self) == ~self.tagged_allow

-----------------------------------------------------------------------------
(* serde.rs: SpannedInner, the Serializer that drives a validator.  A      *)
(* method returning Result<_, SerdeError> returns [ok, self].              *)

SpannedInner(spans, sp, validator) ==
    [spans |-> spans, span |-> sp, validator |-> Some(validator),
     validator_seq |-> None, validator_map |-> None, error |-> None]

\* use_span / get_span: with_span on whichever validator is held
apply_with_span(self, sp) ==
    IF IsSome(self.validator)
    THEN [self EXCEPT !.validator = Some(with_span(@[1], sp))]
    ELSE IF IsSome(self.validator_seq)
         THEN [self EXCEPT !.validator_seq = Some(with_span(@[1], sp))]
         ELSE IF IsSome(self.validator_map)
              THEN [self EXCEPT !.validator_map = Some(with_span(@[1], sp))]
              ELSE self

\* SpannedInner::use_span
use_span(self, new_span) ==
    LetIn(CASE Kind(new_span) = "Add" ->
                  [self EXCEPT !.span = Payload(new_span)]
             [] Kind(new_span) = "Reset" ->
                  [apply_with_span(self, None) EXCEPT
                     !.span = Payload(new_span)]
             [] OTHER -> self,
          LAMBDA s1 : apply_with_span(s1, s1.span))

\* SpannedInner::get_span; the pair <<self afterwards, the span>>
get_span(self, new_span) ==
    CASE Kind(new_span) = "Add" -> <<self, Payload(new_span)>>
      [] Kind(new_span) = "Reset" ->
            <<apply_with_span(self, None), Payload(new_span)>>
      [] OTHER -> <<self, self.span>>

\* SpannedInner::add_error
add_error(self, e) ==
    [self EXCEPT !.error = IF IsSome(@) THEN Some(@[1] \o e) ELSE Some(e)]

\* `if let Err(e) = .. { self.add_error(e) }`
note_result(self, r) == IF r.ok THEN self ELSE add_error(self, r.errs)

\* the prologue of every primitive method: spans.value(..), use_span,
\* validator.take()
take_validator(self, sv) ==
    LetIn(use_span([self EXCEPT !.spans = sv[2]], sv[1]), LAMBDA s1 :
          [validator |-> s1.validator[1],
           self |-> [s1 EXCEPT !.validator = None]])

serialize_bool(self, v) ==
    LetIn(take_validator(self, KeySpans_value(self.spans)), LAMBDA t :
          note_result(t.self, validate_bool(t.validator, v)))

\* serialize_i8 .. serialize_u64
serialize_i64(self, v) ==
    LetIn(take_validator(self, KeySpans_value(self.spans)), LAMBDA t :
          note_result(t.self, validate_i64(t.validator, v)))

serialize_str(self, v) ==
    LetIn(take_validator(self, KeySpans_value(self.spans)), LAMBDA t :
          note_result(t.self, validate_str(t.validator, v)))

serialize_unit(self) ==
    LetIn(take_validator(self, KeySpans_unit(self.spans)), LAMBDA t :
          note_result(t.self, validate_unit(t.validator)))

serialize_seq(self, len) ==
    LetIn(take_validator(self, KeySpans_seq_start(self.spans)), LAMBDA t :
    LetIn(validate_seq(t.validator, len), LAMBDA r :
          IF r.ok
          THEN [ok |-> TRUE,
                self |-> [t.self EXCEPT !.validator_seq = Some(r.v)]]
          ELSE [ok |-> FALSE, self |-> add_error(t.self, r.errs)]))

serialize_map(self, len) ==
    LetIn(take_validator(self, KeySpans_map_start(self.spans)), LAMBDA t :
    LetIn(validate_map(t.validator, len), LAMBDA r :
          IF r.ok
          THEN [ok |-> TRUE,
                self |-> [t.self EXCEPT !.validator_map = Some(r.v)]]
          ELSE [ok |-> FALSE, self |-> add_error(t.self, r.errs)]))

\* SerializeSeq::serialize_element
serialize_element(self, v) ==
    LetIn(KeySpans_value(self.spans), LAMBDA sv :
    LetIn(get_span([self EXCEPT !.spans = sv[2]], sv[1]), LAMBDA gs :
    LetIn(validate_element(gs[1].validator_seq[1],
                           Spanned(KeySpans_descend(gs[1].spans), gs[2], v)),
          LAMBDA e :
          note_result([gs[1] EXCEPT !.validator_seq = Some(e.v)], e.r))))

\* SerializeSeq::end
SerializeSeq_end(self) ==
    LetIn(KeySpans_seq_end(self.spans), LAMBDA sv :
    LetIn(use_span([self EXCEPT !.spans = sv[2]], sv[1]), LAMBDA s1 :
          note_result([s1 EXCEPT !.validator_seq = None],
                      ValidateSeq_end(s1.validator_seq[1]))))

\* SerializeMap::serialize_key
serialize_key(self, key) ==
    LetIn(use_span(self, KeySpans_key(self.spans, key)), LAMBDA s1 :
    LetIn(KeySerializer(key), LAMBDA k :
    LetIn(IF string_key_required(s1.validator_map[1]) /\ IsSome(k)
          THEN validate_string_key(s1.validator_map[1],
                                   Spanned(s1.spans, s1.span, StrV(k[1])))
          ELSE validate_key(s1.validator_map[1],
                            Spanned(s1.spans, s1.span, key)),
          LAMBDA e :
          IF e.r.ok
          THEN [ok |-> TRUE, self |-> [s1 EXCEPT !.validator_map = Some(e.v)]]
          ELSE [ok |-> FALSE,
                self |-> add_error([s1 EXCEPT !.validator_map = Some(e.v)],
                                   e.r.errs)])))

\* SerializeMap::serialize_value
serialize_value(self, v) ==
    LetIn(KeySpans_value(self.spans), LAMBDA sv :
    LetIn(get_span([self EXCEPT !.spans = sv[2]], sv[1]), LAMBDA gs :
    LetIn(validate_value(gs[1].validator_map[1],
                         Spanned(KeySpans_descend(gs[1].spans), gs[2], v)),
          LAMBDA e :
          note_result([gs[1] EXCEPT !.validator_map = Some(e.v)], e.r))))

\* SerializeMap::end
SerializeMap_end(self) ==
    LetIn(KeySpans_map_end(self.spans), LAMBDA sv :
    LetIn(use_span([self EXCEPT !.spans = sv[2]], sv[1]), LAMBDA s1 :
          note_result([s1 EXCEPT !.validator_map = None],
                      ValidateMap_end(s1.validator_map[1]))))

\* a panic (unwrap() on None): the error list that marks the abort.  A
\* panic unwinds through every caller; the values the adapter is run on
\* hold variants at the top level only, where the caller is `validate`.
Panic(msg) == one(Error(None, None, <<"Panic", msg>>))

\* the common first half of serialize_tuple_variant and
\* serialize_struct_variant: map_start, validator.take(), key(variant),
\* validate_tag, descend; `validator` is the local the tag was judged on
variant_tag(self, variant) ==
    LetIn(take_validator(self, KeySpans_map_start(self.spans)), LAMBDA t :
    LetIn(use_span(t.self, KeySpans_key(t.self.spans, StrV(variant))),
          LAMBDA s1 :
    LetIn(validate_tag(t.validator,
                       Spanned(s1.spans, s1.span, StrV(variant))),
          LAMBDA g :
          IF ~g.r.ok
          THEN [ok |-> FALSE, self |-> add_error(s1, g.r.errs),
                validator |-> g.v]
          ELSE [ok |-> TRUE,
                self |-> [s1 EXCEPT !.spans = KeySpans_descend(@)],
                validator |-> g.v])))

serialize_tuple_variant(self, variant, len) ==
    LetIn(variant_tag(self, variant), LAMBDA g :
          IF ~g.ok THEN [ok |-> FALSE, self |-> g.self]
          ELSE
    LetIn(KeySpans_seq_start(g.self.spans), LAMBDA sv :
    LetIn(use_span([g.self EXCEPT !.spans = sv[2]], sv[1]), LAMBDA s2 :
    LetIn(validate_seq(g.validator, len), LAMBDA r :
          IF r.ok
          THEN [ok |-> TRUE,
                self |-> [s2 EXCEPT !.validator_seq = Some(r.v)]]
          ELSE [ok |-> FALSE, self |-> add_error(s2, r.errs)]))))

\* after the tag the method takes `self.validator` a second time
serialize_struct_variant(self, variant, len) ==
    LetIn(variant_tag(self, variant), LAMBDA g :
          IF ~g.ok THEN [ok |-> FALSE, self |-> g.self]
          ELSE
    LetIn(KeySpans_map_start(g.self.spans), LAMBDA sv :
    LetIn(use_span([g.self EXCEPT !.spans = sv[2]], sv[1]), LAMBDA s2 :
          IF IsNone(s2.validator)
          THEN [ok |-> FALSE,
                self |-> add_error(s2,
                    Panic("unwrap on None"))]
          ELSE
    LetIn(validate_map(s2.validator[1], len), LAMBDA r :
          IF r.ok
          THEN [ok |-> TRUE,
                self |-> [s2 EXCEPT !.validator = None,
                                    !.validator_map = Some(r.v)]]
          ELSE [ok |-> FALSE,
                self |-> add_error([s2 EXCEPT !.validator = None],
                                   r.errs)]))))

\* the element loop of a sequence: serialize_element for every item
RECURSIVE serialize_elements(_, _)
serialize_elements(self, items) ==
    IF items = <<>> THEN self
    ELSE serialize_elements(serialize_element(self, Head(items)), Tail(items))

\* the entry loop of a map: serialize_entry is serialize_key(key)? followed
\* by serialize_value(value); a rejected key ends the traversal
RECURSIVE serialize_entries(_, _)
serialize_entries(self, entries) ==
    IF entries = <<>> THEN [ok |-> TRUE, self |-> self]
    ELSE LetIn(serialize_key(self, Head(entries)[1]), LAMBDA k :
               IF ~k.ok THEN k
               ELSE serialize_entries(
                        serialize_value(k.self, Head(entries)[2]),
                        Tail(entries)))

\* self.value.serialize(k): the traversal of one value
serialize(v, k) ==
    CASE Kind(v) = "Null" -> serialize_unit(k)
      [] Kind(v) = "Bool" -> serialize_bool(k, Payload(v))
      [] Kind(v) = "Int" -> serialize_i64(k, Payload(v))
      [] Kind(v) = "Str" -> serialize_str(k, Payload(v))
      [] Kind(v) = "Seq" ->
            LetIn(serialize_seq(k, Some(Len(Payload(v)))), LAMBDA q :
                  IF ~q.ok THEN q.self
                  ELSE SerializeSeq_end(serialize_elements(q.self, Payload(v))))
      [] Kind(v) = "Map" ->
            LetIn(serialize_map(k, Some(Len(Payload(v)))), LAMBDA m :
                  IF ~m.ok THEN m.self
                  ELSE LetIn(serialize_entries(m.self, Payload(v)), LAMBDA es :
                             IF ~es.ok THEN es.self
                             ELSE SerializeMap_end(es.self)))
      [] Kind(v) = "TupleVariant" ->
            LetIn(serialize_tuple_variant(k, Payload(v)[1],
                                          Some(Len(Payload(v)[2]))),
                  LAMBDA q :
                  IF ~q.ok THEN q.self
                  ELSE SerializeSeq_end(
                           serialize_elements(q.self, Payload(v)[2])))
      [] Kind(v) = "StructVariant" ->
            LetIn(serialize_struct_variant(k, Payload(v)[1],
                                           Some(Len(Payload(v)[2]))),
                  LAMBDA m :
                  IF ~m.ok THEN m.self
                  ELSE LetIn(serialize_entries(m.self, Payload(v)[2]),
                             LAMBDA es :
                             IF ~es.ok THEN es.self
                             ELSE SerializeMap_end(es.self)))
      \* serialize_i128 / serialize_u128 are not implemented: the method
      \* serde provides returns Err(custom(..)) and touches nothing
      [] Kind(v) = "I128" -> k

\* impl Validate for Spanned: validate
validate(val, validator) ==
    LetIn(serialize(val.value, SpannedInner(val.spans, val.span, validator)),
          LAMBDA done :
          IF IsNone(done.error) THEN Ok ELSE Err(done.error[1]))

-----------------------------------------------------------------------------
(* schema.rs: impl Verifier for RootSchema *)

\* Verifier::verify_value_with_span
verify_value_with_span(val, sp) ==
    validate_inner(with_parent_span(new(Object(root)), sp), val)

\* Verifier::verify_value
verify_value(val) == verify_value_with_span(val, None)

-----------------------------------------------------------------------------
(* verify.rs: impl Verify for RootSchema, the pass over the schema         *)
(* document itself.  Keys + &str and Keys + usize append one key; the      *)
(* spans of this pass are paths in the document.                           *)

RECURSIVE verify_schema(_, _, _)

\* verify_schema_object: `for (i, s) in list.iter().enumerate() { .. }` over
\* the list under one combinator keyword, `errors += err` for each Err
verify_each(list, defs, span, keyword) ==
    IF IsNone(list) THEN <<>>
    ELSE Concat([i \in 1..Len(list[1]) |->
                    verify_schema(list[1][i], defs,
                                  span \o <<keyword, ToString(i - 1)>>).errs])

\* verify_schema_object: `if let Some(s) = &subs.not { .. }` and the like
verify_optional(s, defs, span, keyword) ==
    IF IsNone(s) THEN <<>>
    ELSE verify_schema(s[1], defs, span \o <<keyword>>).errs

\* verify_schema_object: `if let Some(subs) = &schema.subschemas { .. }`
verify_subschemas(schema, defs, span) ==
    IF IsNone(schema.subschemas) THEN <<>>
    ELSE LET subs == schema.subschemas[1] IN
            verify_each(subs.all_of, defs, span, "allOf")
         \o verify_each(subs.one_of, defs, span, "oneOf")
         \o verify_each(subs.any_of, defs, span, "anyOf")
         \o verify_optional(subs.not, defs, span, "not")
         \o verify_optional(subs.if_schema, defs, span, "if")
         \o verify_optional(subs.then_schema, defs, span, "then")
         \o verify_optional(subs.else_schema, defs, span, "else")

\* verify_schema_object: `if let Some(o) = &schema.object { .. }`
verify_object(schema, defs, span) ==
    IF IsNone(schema.object) THEN <<>>
    ELSE LET o == schema.object[1] IN
            Concat([i \in 1..Len(o.pattern_properties) |->
                       LET k == o.pattern_properties[i][1] IN
                       IF RegexCompiles(k) THEN <<>>
                       ELSE one(Error(None,
                                      Some(span \o <<"patternProperties", k>>),
                                      InvalidPattern(k)))])
         \o Concat([i \in 1..Len(o.properties) |->
                       verify_schema(o.properties[i][2], defs,
                                     span \o <<"properties",
                                               o.properties[i][1]>>).errs])
         \o verify_optional(o.additional_properties, defs, span,
                            "additionalProperties")

\* verify_schema_object: `if let Some(st) = &schema.string { .. }`
verify_string(schema, span) ==
    IF IsSome(schema.string) /\ IsSome(schema.string[1].pattern)
       /\ ~RegexCompiles(schema.string[1].pattern[1])
    THEN one(Error(None, Some(span \o <<"pattern">>),
                   InvalidPattern(schema.string[1].pattern[1])))
    ELSE <<>>

\* fn verify_schema_object
verify_schema_object(schema, defs, span) ==
    LET r == schema.reference[1]
        s == local_definition(r)
        E(val) == one(Error(None, Some(span), val))
    IN IF IsSome(schema.reference) /\ IsNone(s)
       THEN Err(E(ExternalReference(r)))
       ELSE IF IsSome(schema.reference) /\ IsNone(get(defs, s[1]))
            THEN Err(E(MissingDefinition(s[1])))
            ELSE FromErrors(   verify_subschemas(schema, defs, span)
                            \o verify_object(schema, defs, span)
                            \o verify_string(schema, span))

\* fn verify_schema
verify_schema(schema, defs, span) ==
    IF Kind(schema) = "Bool" THEN Ok
    ELSE verify_schema_object(Payload(schema), defs, span)

\* impl Verify for RootSchema: verify
verify(schema, defs) ==
    FromErrors(
         Concat([i \in 1..Len(defs) |->
                    verify_schema(defs[i][2], defs,
                                  <<"definitions", defs[i][1]>>).errs])
      \o verify_schema_object(schema, defs, <<>>).errs)

-----------------------------------------------------------------------------
(* The calls in flight.  A frame is one activation of validate_inner (a    *)
(* schema and the value it judges) or of verify_schema (a schema); the     *)
(* operators below give the activations a frame can start, each with the   *)
(* schema and the value the code hands to it.                              *)

ValidateInnerFrame(s, v) == <<"validate_inner", [schema |-> s, value |-> v]>>
VerifySchemaFrame(s) == <<"verify_schema", [schema |-> s, value |-> NullV]>>

\* the schemas of an Option<Vec<Schema>> and of an Option<Schema>
Listed(list) ==
    IF IsNone(list) THEN {} ELSE {list[1][i] : i \in 1..Len(list[1])}
Present(s) == IF IsNone(s) THEN {} ELSE {s[1]}

\* the schemas under the combinator keywords of a node
Combined(o) ==
    IF IsNone(o.subschemas) THEN {}
    ELSE LET subs == o.subschemas[1] IN
              Listed(subs.all_of) \cup Listed(subs.any_of)
         \cup Listed(subs.one_of) \cup Present(subs.not)
         \cup Present(subs.if_schema) \cup Present(subs.then_schema)
         \cup Present(subs.else_schema)

\* validate_inner, the reference arm: the definition is judged with the
\* same value
reference_calls(o, v) ==
    LET local == local_definition(o.reference[1]) IN
    IF IsSome(local) /\ IsSome(get(definitions, local[1]))
    THEN {ValidateInnerFrame(get(definitions, local[1])[1], v)}
    ELSE {}

\* validate_subschemas: every branch is judged with the same value
subschema_calls(o, v) == {ValidateInnerFrame(b, v) : b \in Combined(o)}

\* validate_element for the whole sequence instead of its element
element_calls_same_value(o, i, seq) ==
    IF IsNone(o.array) THEN {}
    ELSE LET arr == o.array[1] IN
              {ValidateInnerFrame(c, seq) : c \in Present(arr.contains)}
         \cup {ValidateInnerFrame(c, seq) :
                  c \in IF IsNone(arr.items) THEN {}
                        ELSE IF Kind(arr.items[1]) = "Single"
                             THEN {Payload(arr.items[1])}
                             ELSE IF i <= Len(Payload(arr.items[1]))
                                  THEN {Payload(arr.items[1])[i]}
                                  ELSE Present(arr.additional_items)}

\* validate_element for the i-th element of the sequence: contains, then
\* the items schema for its position
element_calls(o, i, seq) ==
    IF IsNone(o.array) THEN {}
    ELSE LET arr == o.array[1]
             value == Payload(seq)[i]
         IN   {ValidateInnerFrame(c, value) : c \in Present(arr.contains)}
         \cup {ValidateInnerFrame(c, value) :
                  c \in IF IsNone(arr.items) THEN {}
                        ELSE IF Kind(arr.items[1]) = "Single"
                             THEN {Payload(arr.items[1])}
                             ELSE IF i <= Len(Payload(arr.items[1]))
                                  THEN {Payload(arr.items[1])[i]}
                                  ELSE Present(arr.additional_items)}

\* validate_string_key and validate_value for one entry of a map:
\* propertyNames for the key; for the value the named property, else the
\* patterns matching the key, else additionalProperties
entry_calls(o, key, value) ==
    IF IsNone(o.object) \/ Kind(key) # "Str" THEN {}
    ELSE LET obj == o.object[1]
             prop == get(obj.properties, Payload(key))
             pats == {obj.pattern_properties[i][2] :
                         i \in {j \in 1..Len(obj.pattern_properties) :
                                  /\ RegexCompiles(obj.pattern_properties[j][1])
                                  /\ RegexIsMatch(obj.pattern_properties[j][1],
                                                  Payload(key))}}
         IN   {ValidateInnerFrame(n, key) : n \in Present(obj.property_names)}
         \cup {ValidateInnerFrame(c, value) :
                  c \in IF IsSome(prop) THEN {prop[1]}
                        ELSE IF pats # {} THEN pats
                             ELSE Present(obj.additional_properties)}

\* value.validate(SchemaValidator::new(..)): the traversal of a sequence
\* or a map whose type the node allows
leaf_calls(o, v) ==
    IF IsNone(o.instance_type) THEN {}
    ELSE IF Kind(v) = "Seq" /\ TypeAllowed("Array", o.instance_type[1])
         THEN UNION {element_calls(o, i, v) : i \in 1..Len(Payload(v))}
         ELSE IF Kind(v) = "Map" /\ TypeAllowed("Object", o.instance_type[1])
              THEN UNION {entry_calls(o, Payload(v)[i][1], Payload(v)[i][2]) :
                             i \in 1..Len(Payload(v))}
              ELSE {}

\* the validate_inner activations one validate_inner activation starts
validate_inner_calls(s, v) ==
    IF Kind(s) = "Bool" THEN {}
    ELSE IF IsSome(Payload(s).reference)
         THEN reference_calls(Payload(s), v)
         ELSE subschema_calls(Payload(s), v) \cup leaf_calls(Payload(s), v)

\* the verify_schema activations one verify_schema activation starts: none
\* after a bad reference, else combinators, properties, additionalProperties
verify_schema_calls(s) ==
    IF Kind(s) = "Bool" THEN {}
    ELSE LET o == Payload(s) IN
         IF ~verify_schema_object([o EXCEPT !.subschemas = None,
                                            !.object = None,
                                            !.string = None],
                                  definitions, <<>>).ok
         THEN {}
         ELSE {VerifySchemaFrame(c) :
                  c \in Combined(o)
                    \cup (IF IsNone(o.object) THEN {}
                          ELSE {o.object[1].properties[i][2] :
                                   i \in 1..Len(o.object[1].properties)}
                               \cup Present(o.object[1].additional_properties))}

calls_of(frame) ==
    IF Kind(frame) = "validate_inner"
    THEN validate_inner_calls(Payload(frame).schema, Payload(frame).value)
    ELSE verify_schema_calls(Payload(frame).schema)

-----------------------------------------------------------------------------
(* The schema documents and values the model is run on *)

MaxBranches == 3

Meta(title) == Some([title |-> title])
Typed(t, title) ==
    [SchemaObject EXCEPT !.instance_type = Some(Single(t)),
                         !.metadata = Meta(title)]
RefTo(chunks) == [SchemaObject EXCEPT !.reference = Some(chunks)]
WithSub(s, sub) == [s EXCEPT !.subschemas = Some(sub)]

IntegerSchema == Object(Typed("Integer", "I"))
StringSchema == Object(Typed("String", "S"))
RefA == Object(RefTo(<<DefinitionsPrefix, "A">>))
RefMissing == Object(RefTo(<<DefinitionsPrefix, "Missing">>))
RefExternal ==
    Object(RefTo(<<"http://example.com/schema.json", DefinitionsPrefix, "A">>))

\* an integer node constrained by three leaf groups
Constrained ==
    [Typed("Integer", "N") EXCEPT
        !.enum_values = Some(<<IntV(1)>>),
        !.number = Some([NoNumber EXCEPT !.maximum = Some(1)])]

\* a node with leaf groups but no instance type
Untyped ==
    [SchemaObject EXCEPT
        !.metadata = Meta("U"),
        !.enum_values = Some(<<IntV(1)>>),
        !.number = Some([NoNumber EXCEPT !.maximum = Some(1)]),
        !.string = Some([NoString EXCEPT !.max_length = Some(1)]),
        !.array = Some([NoArray EXCEPT !.min_items = Some(3)]),
        !.object = Some([NoObject EXCEPT !.required = <<"b">>])]

\* the sub-schemas listed under combinators
Branches == {Bool(TRUE), Bool(FALSE), IntegerSchema, StringSchema, RefMissing}
Conditions == {Bool(TRUE), Bool(FALSE), IntegerSchema}

BranchLists ==
    UNION {[1..n -> Branches] : n \in 1..MaxBranches}

Subschemas ==
       {[NoSubschemas EXCEPT !.all_of = Some(l)] : l \in BranchLists}
    \cup {[NoSubschemas EXCEPT !.any_of = Some(l)] : l \in BranchLists}
    \cup {[NoSubschemas EXCEPT !.one_of = Some(l)] : l \in BranchLists}
    \cup {[NoSubschemas EXCEPT !.not = Some(b)] :
             b \in Branches \cup {RefA, Object(Constrained)}}
    \cup {[NoSubschemas EXCEPT !.if_schema = i, !.then_schema = t,
                               !.else_schema = e] :
             i \in {Some(c) : c \in Conditions},
             t \in {None} \cup {Some(c) : c \in Conditions},
             e \in {None} \cup {Some(c) : c \in Conditions}}
    \cup {[NoSubschemas EXCEPT !.all_of = Some(<<a>>), !.any_of = Some(<<b>>),
                               !.not = Some(c)] :
             a \in Conditions, b \in Conditions, c \in Conditions}

Bases == {SchemaObject, Constrained, Untyped}

\* nodes that carry a reference next to combinators and leaf constraints
Referring ==
    {[WithSub(Constrained, [NoSubschemas EXCEPT !.all_of = Some(<<Bool(FALSE)>>)])
        EXCEPT !.reference = Some(r)] :
        r \in {<<DefinitionsPrefix, "A">>, <<DefinitionsPrefix, "B">>,
               <<DefinitionsPrefix, "D">>, <<DefinitionsPrefix, "Missing">>,
               <<DefinitionsPrefix, DefinitionsPrefix, "A">>,
               <<DefinitionsPrefix>>,
               <<"http://example.com/schema.json", DefinitionsPrefix, "A">>}}

\* collections whose members are judged by a sub-schema
Members ==
    Branches \cup {RefA, RefExternal, Object(Constrained), Object(Untyped),
                   Object(RefTo(<<DefinitionsPrefix, "B">>)),
                   Object(RefTo(<<DefinitionsPrefix, "C">>)),
                   Object(RefTo(<<DefinitionsPrefix, "D">>))}

Collections ==
       {[Typed("Array", "L") EXCEPT
            !.array = Some([NoArray EXCEPT !.items = Some(Single(m)),
                                           !.max_items = Some(1)])] :
            m \in Members}
    \cup {[Typed("Object", "O") EXCEPT
            !.object = Some([NoObject EXCEPT
                                !.properties = <<<<"a", m>>>>,
                                !.required = <<"a", "b">>,
                                !.additional_properties = Some(Bool(FALSE))])] :
            m \in Members}

Roots ==
       {IF sub = NoSubschemas THEN b ELSE WithSub(b, sub) :
            b \in Bases, sub \in Subschemas \cup {NoSubschemas}}
    \cup Referring
    \cup Collections

\* RootSchema.definitions of the documents
Definitions ==
    <<<<"A", Object(Constrained)>>,
      <<"B", Bool(FALSE)>>,
      <<"C", RefMissing>>,
      <<"D", Object(WithSub(SchemaObject,
                 [NoSubschemas EXCEPT !.all_of = Some(<<Bool(FALSE)>>)]))>>>>

DefinitionTables == {<<>>, Definitions}

Values ==
    {NullV, IntV(1), IntV(2), StrV("a"), StrV("ab"),
     SeqV(<<IntV(1), StrV("a")>>),
     MapV(<<<<StrV("a"), IntV(2)>>, <<StrV("c"), IntV(1)>>>>)}

ParentSpans == {None, Some(<<"p">>)}

-----------------------------------------------------------------------------
(* The caller: a schema document is parsed, then values are verified       *)
(* against it one call at a time.                                          *)

\* the parts of the state a run does not use stay as they are here
NoVerify ==
    /\ root = SchemaObject /\ arg_value = None /\ arg_span = None
    /\ result = None /\ pc = "off" /\ self_check = None /\ stack = <<>>
NoProtocol == cursor = None /\ phase = "off" /\ outcome = None /\ calls = <<>>
NoAdapter ==
    given = None /\ inner = None /\ judged = None /\ last_new_span = None
NoSpans == span_self = None /\ span_arg = None /\ span_out = None

Init ==
    /\ root \in Roots
    /\ definitions \in DefinitionTables
    /\ arg_value = None
    /\ arg_span = None
    /\ result = None
    /\ pc = "idle"
    /\ self_check = None
    /\ stack = <<>>
    /\ NoProtocol /\ NoAdapter /\ NoSpans

\* Verifier::verify_value(&Spanned::new(&value, KeySpans::default()))
VerifyValue(v) ==
    /\ pc = "idle"
    /\ arg_value' = Some(v)
    /\ arg_span' = None
    /\ result' = Some(verify_value(Spanned_new(v)))
    /\ pc' = "done"
    /\ UNCHANGED <<root, definitions, self_check, stack, protocolVars,
                   adapterVars, spanVars>>

\* Verifier::verify_value_with_span(&Spanned::new(..), span)
VerifyValueWithSpan(v, sp) ==
    /\ pc = "idle"
    /\ arg_value' = Some(v)
    /\ arg_span' = sp
    /\ result' = Some(verify_value_with_span(Spanned_new(v), sp))
    /\ pc' = "done"
    /\ UNCHANGED <<root, definitions, self_check, stack, protocolVars,
                   adapterVars, spanVars>>

\* the caller drops the result; the document can be used again
Drop ==
    /\ pc = "done"
    /\ arg_value' = None
    /\ arg_span' = None
    /\ result' = None
    /\ pc' = "idle"
    /\ UNCHANGED <<root, definitions, self_check, stack, protocolVars,
                   adapterVars, spanVars>>

Next ==
    \/ \E v \in Values : VerifyValue(v)
    \/ \E v \in Values, sp \in ParentSpans : VerifyValueWithSpan(v, sp)
    \/ Drop

Spec == Init /\ [][Next]_vars

TypeOK ==
    /\ pc \in {"idle", "done"}
    /\ pc = "done" => IsSome(result) /\ IsSome(arg_value)

-----------------------------------------------------------------------------
(* A value-side implementation driving one validator through the Validator *)
(* protocol of lib.rs, call by call: an optional validate_tag, then        *)
(* validate_seq with its elements and end, or validate_map with its keys,  *)
(* values and end.                                                         *)

MaxElements == 3
MaxEntries == 2

ArrayOf(m) ==
    Object([Typed("Array", "L") EXCEPT
               !.array = Some([NoArray EXCEPT !.items = Some(Single(m))])])

NamePattern ==
    Object([Typed("String", "K") EXCEPT
               !.string = Some([NoString EXCEPT !.pattern = Some("^a")])])

ArrayNodes ==
    {[Typed("Array", "L") EXCEPT
         !.array = Some([NoArray EXCEPT
                            !.items = it, !.additional_items = ad,
                            !.unique_items = un, !.contains = co,
                            !.min_items = mm, !.max_items = mm])] :
        it \in {None, Some(Single(IntegerSchema)),
                Some(Vec(<<IntegerSchema, StringSchema>>))},
        ad \in {None, Some(Bool(FALSE))},
        un \in {None, Some(TRUE), Some(FALSE)},
        co \in {None, Some(StringSchema)},
        mm \in {None, Some(2)}}

ObjectNodes ==
    {[Typed("Object", "O") EXCEPT
         !.object = Some([NoObject EXCEPT
                             !.required = rq, !.properties = pr,
                             !.pattern_properties = pp,
                             !.additional_properties = ap,
                             !.property_names = pn,
                             !.min_properties = mm, !.max_properties = mm])] :
        rq \in {<<>>, <<"a", "b">>},
        pr \in {<<>>, <<<<"a", IntegerSchema>>>>},
        pp \in {<<>>,
                <<<<"^a", StringSchema>>, <<"b$", IntegerSchema>>>>,
                <<<<BadPattern, Bool(TRUE)>>, <<"^a", StringSchema>>>>},
        ap \in {None, Some(Bool(FALSE)), Some(StringSchema)},
        pn \in {None, Some(NamePattern)},
        mm \in {Some(1)}}

\* nodes under which an externally tagged variant is announced
TagNodes ==
    {[SchemaObject EXCEPT !.metadata = Meta("T"), !.instance_type = ty,
                          !.object = ob] :
        ty \in {None, Some(Single("Object")), Some(Vec(<<"Object", "Array">>))},
        ob \in {None} \cup
               {Some([NoObject EXCEPT
                         !.required = <<"c">>,
                         !.properties = <<<<"a", ArrayOf(IntegerSchema)>>>>,
                         !.pattern_properties = pp,
                         !.additional_properties = ap]) :
                   pp \in {<<>>,
                           <<<<"^a", Object(Typed("Object", "P"))>>>>,
                           <<<<BadPattern, Bool(TRUE)>>>>},
                   ap \in {None, Some(ArrayOf(StringSchema))}}}

ProtocolNodes ==
    {Object(n) : n \in ArrayNodes \cup ObjectNodes \cup TagNodes}
    \cup {Bool(TRUE), Bool(FALSE)}

Tags == {"a", "ab", "c"}
Elements == {IntV(1), IntV(2), StrV("a")}
Keys == {"a", "ab", "c"}
EntryValues == {IntV(1), StrV("a")}

\* the span a traversal gives to the element at zero-based position i
ElementSpan(i) == Some(<<ToString(i)>>)

Called(op, arg, r) == Append(calls, [op |-> op, arg |-> arg, r |-> r])
CountOf(op) == Len(SelectSeq(calls, LAMBDA c : c.op = op))

\* the span of the key of the entry being traversed
LastKeySpan ==
    IF calls[Len(calls)].op = "string_key"
    THEN Some(<<Payload(calls[Len(calls)].arg)>>)
    ELSE Some(<<"???">>)

ProtocolInit ==
    /\ NoVerify /\ NoAdapter /\ NoSpans
    /\ definitions = Definitions
    /\ \E s \in ProtocolNodes, sp \in ParentSpans :
          cursor = with_parent_span(new(s), sp)
    /\ phase = "new"
    /\ outcome = None
    /\ calls = <<>>

Frame == UNCHANGED <<verifyVars, definitions, adapterVars, spanVars>>

\* validator.validate_tag(&tag)
TagCall(tag) ==
    /\ phase = "new"
    /\ LET t == validate_tag(cursor, Spanned(KeySpans, Some(<<tag>>), StrV(tag)))
       IN /\ cursor' = t.v
          /\ outcome' = Some(t.r)
          /\ phase' = IF t.r.ok THEN "tagged" ELSE "failed"
          /\ calls' = Called("tag", StrV(tag), t.r)
    /\ Frame

\* validator.validate_seq(None)
SeqCall ==
    /\ phase \in {"new", "tagged"}
    /\ LET q == validate_seq(cursor, None)
           r == [ok |-> q.ok, errs |-> q.errs]
       IN /\ cursor' = q.v
          /\ outcome' = Some(r)
          /\ phase' = IF q.ok THEN "seq" ELSE "failed"
          /\ calls' = Called("seq", NullV, r)
    /\ Frame

\* seq.validate_element(&value)
ElementCall(v) ==
    /\ phase = "seq"
    /\ CountOf("element") < MaxElements
    /\ LET e == validate_element(
                   cursor,
                   Spanned(KeySpans, ElementSpan(CountOf("element")), v))
       IN /\ cursor' = e.v
          /\ outcome' = Some(e.r)
          /\ calls' = Called("element", v, e.r)
    /\ UNCHANGED phase
    /\ Frame

\* seq.end()
SeqEndCall ==
    /\ phase = "seq"
    /\ LET r == ValidateSeq_end(cursor)
       IN /\ outcome' = Some(r)
          /\ calls' = Called("end", NullV, r)
    /\ phase' = "ended"
    /\ UNCHANGED cursor
    /\ Frame

\* validator.validate_map(None)
MapCall ==
    /\ phase \in {"new", "tagged"}
    /\ LET m == validate_map(cursor, None)
           r == [ok |-> m.ok, errs |-> m.errs]
       IN /\ cursor' = m.v
          /\ outcome' = Some(r)
          /\ phase' = IF m.ok THEN "map" ELSE "failed"
          /\ calls' = Called("map", NullV, r)
    /\ Frame

\* map.validate_string_key(&key)
StringKeyCall(k) ==
    /\ phase = "map"
    /\ CountOf("string_key") + CountOf("key") < MaxEntries
    /\ LET e == validate_string_key(cursor,
                                    Spanned(KeySpans, Some(<<k>>), StrV(k)))
       IN /\ cursor' = e.v
          /\ outcome' = Some(e.r)
          /\ phase' = IF e.r.ok THEN "value" ELSE "map"
          /\ calls' = Called("string_key", StrV(k), e.r)
    /\ Frame

\* map.validate_key(&key), for a key that has no string form
KeyCall(key) ==
    /\ phase = "map"
    /\ CountOf("string_key") + CountOf("key") < MaxEntries
    /\ LET e == validate_key(cursor, Spanned(KeySpans, Some(<<"???">>), key))
       IN /\ cursor' = e.v
          /\ outcome' = Some(e.r)
          /\ phase' = IF e.r.ok THEN "value" ELSE "map"
          /\ calls' = Called("key", key, e.r)
    /\ Frame

\* map.validate_value(&value), after a key that was accepted
ValueCall(v) ==
    /\ phase = "value"
    /\ LET e == validate_value(cursor, Spanned(KeySpans, LastKeySpan, v))
       IN /\ cursor' = e.v
          /\ outcome' = Some(e.r)
          /\ calls' = Called("value", v, e.r)
    /\ phase' = "map"
    /\ Frame

\* map.end()
MapEndCall ==
    /\ phase = "map"
    /\ LET r == ValidateMap_end(cursor)
       IN /\ outcome' = Some(r)
          /\ calls' = Called("end", NullV, r)
    /\ phase' = "ended"
    /\ UNCHANGED cursor
    /\ Frame

ProtocolNext ==
    \/ \E tag \in Tags : TagCall(tag)
    \/ SeqCall
    \/ \E v \in Elements : ElementCall(v)
    \/ SeqEndCall
    \/ MapCall
    \/ \E k \in Keys : StringKeyCall(k)
    \/ KeyCall(BoolV(TRUE))
    \/ \E v \in EntryValues : ValueCall(v)
    \/ MapEndCall

SpecProtocol == ProtocolInit /\ [][ProtocolNext]_vars

-----------------------------------------------------------------------------
(* One call of Validate::validate on a serde-wrapped value: `given` is the *)
(* Spanned value, `inner` the SpannedInner built around the validator and  *)
(* then left by the traversal, `judged` how the call came out.             *)

\* the sub-schemas a variant's tag can be matched to
VariantSchemas ==
    {RefA, RefMissing, ArrayOf(RefA), Bool(FALSE),
     Object(WithSub(SchemaObject,
                    [NoSubschemas EXCEPT !.all_of = Some(<<Bool(FALSE)>>)])),
     Object(WithSub(Typed("Array", "L"),
                    [NoSubschemas EXCEPT !.not = Some(Bool(TRUE))]))}

\* an enum's node: one property for each variant
VariantNodes ==
    {Object([Typed("Object", "E") EXCEPT
                !.object = Some([NoObject EXCEPT
                                    !.properties = <<<<"a", p>>>>])]) :
        p \in VariantSchemas}

AdapterNodes ==
    ProtocolNodes \cup VariantNodes
                  \cup {IntegerSchema, StringSchema, Object(Constrained)}

AdapterValues ==
    {NullV, BoolV(TRUE), IntV(1), StrV("a"), I128V(1),
     SeqV(<<>>),
     SeqV(<<IntV(1), IntV(1), StrV("a")>>),
     SeqV(<<StrV("a"), IntV(2)>>),
     MapV(<<>>),
     MapV(<<<<StrV("a"), IntV(1)>>, <<StrV("b"), IntV(1)>>>>),
     MapV(<<<<StrV("a"), StrV("a")>>>>),
     MapV(<<<<StrV("c"), IntV(1)>>, <<StrV("a"), IntV(1)>>>>),
     MapV(<<<<BoolV(TRUE), IntV(1)>>, <<StrV("a"), IntV(1)>>>>),
     MapV(<<<<IntV(1), IntV(1)>>>>),
     TupleVariantV("a", <<IntV(1), StrV("a")>>),
     TupleVariantV("c", <<>>),
     StructVariantV("a", <<<<StrV("a"), IntV(1)>>>>),
     StructVariantV("ab", <<>>),
     StructVariantV("c", <<<<StrV("c"), StrV("a")>>>>)}

\* how a call comes out: it returns a Result, or a panic unwinds it
Returned(r) == <<"Returned", r>>
Aborted(msg) == <<"Aborted", msg>>

\* the panic message among the errors the traversal left, if any
PanicOf(err) ==
    IF IsNone(err) THEN None
    ELSE IF \E i \in 1..Len(err[1]) : Kind(err[1][i].value) = "Panic"
         THEN Some(Payload(
                 err[1][CHOOSE i \in 1..Len(err[1]) :
                            Kind(err[1][i].value) = "Panic"].value))
         ELSE None

AdapterInit ==
    /\ NoVerify
    /\ NoProtocol
    /\ NoSpans
    /\ definitions = Definitions
    /\ \E v \in AdapterValues, s \in AdapterNodes, sp \in ParentSpans :
          /\ given = Some(Spanned_new(v))
          /\ inner = Some(SpannedInner(KeySpans, None,
                                       with_parent_span(new(s), sp)))
    /\ judged = None
    /\ last_new_span = None

\* Spanned::validate: the traversal self.value.serialize(k), then the match
\* on the errors it collected
ValidateCall ==
    /\ judged = None
    /\ inner' = Some(serialize(given[1].value, inner[1]))
    /\ judged' = Some(IF IsSome(PanicOf(inner'[1].error))
                      THEN Aborted(PanicOf(inner'[1].error)[1])
                      ELSE Returned(validate(given[1],
                                             inner[1].validator[1])))
    /\ UNCHANGED <<given, last_new_span, verifyVars, definitions, protocolVars,
                   spanVars>>

AdapterNext == ValidateCall

SpecAdapter == AdapterInit /\ [][AdapterNext]_vars

-----------------------------------------------------------------------------
(* SpannedInner::use_span, call by call: `inner` is an adapter holding a   *)
(* validator, a sequence sub-validator or a map sub-validator, as          *)
(* Spanned::validate and validate_inner build them (the validator's span   *)
(* is the value's span, its parent span the span of what is around it),    *)
(* and `last_new_span` the NewSpan a Spans callback returned last.         *)

NewSpans ==
    {NoChange, Add(None), Add(Some(<<"k">>)), Reset(None), Reset(Some(<<"k">>))}

LocationNodes ==
    {IntegerSchema, StringSchema, ArrayOf(IntegerSchema), NamePattern,
     Bool(TRUE)}

\* the adapter of Spanned::validate, and the adapter once validate_seq or
\* validate_map has returned the sub-validator
Holding(slot, spans, sp, validator) ==
    [SpannedInner(spans, sp, validator) EXCEPT
        !.validator = IF slot = "validator" THEN Some(validator) ELSE None,
        !.validator_seq = IF slot = "seq" THEN Some(validator) ELSE None,
        !.validator_map = IF slot = "map" THEN Some(validator) ELSE None]

LocationInit ==
    /\ NoVerify
    /\ NoProtocol
    /\ NoSpans
    /\ definitions = Definitions
    /\ given = None
    /\ judged = None
    /\ last_new_span = None
    /\ \E s \in LocationNodes, parent \in ParentSpans,
          sp \in {None, Some(<<"a">>)}, slot \in {"validator", "seq", "map"} :
          inner = Some(Holding(slot, KeySpans, sp,
                               with_spans(new(s), parent, sp)))

\* self.use_span(new_span)
UseSpanCall(ns) ==
    /\ last_new_span' = Some(ns)
    /\ inner' = Some(use_span(inner[1], ns))
    /\ UNCHANGED <<given, judged, verifyVars, definitions, protocolVars,
                   spanVars>>

LocationNext == \E ns \in NewSpans : UseSpanCall(ns)

SpecLocation == LocationInit /\ [][LocationNext]_vars

-----------------------------------------------------------------------------
(* One call of SpanExt::combine on two optional Keys spans: `span_self` is *)
(* the receiver as the caller holds it before the call, `span_arg` the     *)
(* argument, `span_out` the receiver after the call, once it was made.     *)

MaxKeys == 2

SpanKeys == {"a", "b", "0"}

\* Keys: a list of up to MaxKeys keys
KeysSpans == UNION {[1..n -> SpanKeys] : n \in 0..MaxKeys}

OptionalSpans == {None} \cup {Some(k) : k \in KeysSpans}

SpanInit ==
    /\ NoVerify
    /\ NoProtocol
    /\ NoAdapter
    /\ definitions = <<>>
    /\ span_self \in OptionalSpans
    /\ span_arg \in OptionalSpans
    /\ span_out = None

\* receiver.combine(argument)
CombineCall ==
    /\ span_out = None
    /\ span_out' = Some(combine(span_self, span_arg))
    /\ UNCHANGED <<span_self, span_arg, verifyVars, definitions,
                   protocolVars, adapterVars>>

SpanNext == CombineCall

SpecSpan == SpanInit /\ [][SpanNext]_vars

-----------------------------------------------------------------------------
(* The judgment of the finished call, and judgments of parts of the root   *)
(* node taken on their own against the same value.                         *)

Done == pc = "done"
Res == result[1]
Val == Spanned_new(arg_value[1])

\* the judgment of schema s for the value of the call, at the call's span
VerifyNode(s) == validate_inner(with_parent_span(new(s), arg_span), Val)

HasSub == IsNone(root.reference) /\ IsSome(root.subschemas)
Sub == root.subschemas[1]

\* the root node reduced to the combinators of sub, with no leaf constraint
Only(sub) ==
    Object([SchemaObject EXCEPT !.metadata = root.metadata,
                                !.subschemas = Some(sub)])

PartAllOf == VerifyNode(Only([NoSubschemas EXCEPT !.all_of = Sub.all_of])).errs
PartAnyOf == VerifyNode(Only([NoSubschemas EXCEPT !.any_of = Sub.any_of])).errs
PartOneOf == VerifyNode(Only([NoSubschemas EXCEPT !.one_of = Sub.one_of])).errs
PartIfThenElse ==
    VerifyNode(Only([NoSubschemas EXCEPT !.if_schema = Sub.if_schema,
                                         !.then_schema = Sub.then_schema,
                                         !.else_schema = Sub.else_schema])).errs
PartNot == VerifyNode(Only([NoSubschemas EXCEPT !.not = Sub.not])).errs

\* the root node reduced to its leaf constraints
PartLeaf ==
    IF IsSome(root.instance_type)
    THEN VerifyNode(Object([root EXCEPT !.subschemas = None])).errs
    ELSE <<>>

\* the judgments of the listed branches, each taken on its own
BranchResults(list) == [i \in 1..Len(list) |-> VerifyNode(list[i])]

\* Res.errs is pre, then one middle part satisfying P, then post
Between(pre, post, P(_)) ==
    LET n == Len(Res.errs) - Len(pre) - Len(post) IN
    /\ n >= 0
    /\ SubSeq(Res.errs, 1, Len(pre)) = pre
    /\ SubSeq(Res.errs, Len(pre) + n + 1, Len(Res.errs)) = post
    /\ P(SubSeq(Res.errs, Len(pre) + 1, Len(pre) + n))

RECURSIVE NoEmptyErrors(_)
\* no error set nested anywhere in errs is empty
NoEmptyErrors(errs) ==
    /\ errs # <<>>
    /\ \A i \in 1..Len(errs) :
          Kind(errs[i].value) = "NoneValid" =>
              \A j \in 1..Len(Payload(errs[i].value).errors) :
                  NoEmptyErrors(Payload(errs[i].value).errors[j])

\* the errors the reference, combinator and leaf checks of the root produce
NodeChecks ==
    IF IsSome(root.reference)
    THEN resolve_reference(with_parent_span(new(Object(root)), arg_span),
                           root, Val).errs
    ELSE (IF IsSome(root.subschemas)
          THEN PartAllOf \o PartAnyOf \o PartOneOf \o PartIfThenElse \o PartNot
          ELSE <<>>)
         \o PartLeaf

\* C1: validate_inner returns Ok exactly when no reference, combinator or
\* leaf check of the node produced an error; an Err never carries an empty
\* error set (at the node or in a nested branch), and an Ok carries none.
C1_OkIffNoErrors ==
    Done =>
        /\ Res.ok <=> NodeChecks = <<>>
        /\ Res.ok => Res.errs = <<>>
        /\ ~Res.ok => NoEmptyErrors(Res.errs)

\* a node with combinators and leaf constraints judged both ways
C1_Witness ==
    /\ Done
    /\ HasSub
    /\ IsSome(root.instance_type)
    /\ ~Res.ok
    /\ PartLeaf # <<>>
    /\ PartAllOf # <<>>

\* C2: a reference to a local name absent from the definitions gives exactly
\* one MissingDefinition(name) error whatever the value; a reference that is
\* not of the form #/definitions/<name> gives exactly one ExternalReference
\* error; the combinators and leaf constraints next to the reference are not
\* evaluated, while the sibling branches of an enclosing allOf still are.
C2_UnresolvedReference ==
    Done =>
        /\ IsSome(root.reference) =>
              LET r == root.reference[1]
                  name == IF starts_with(r, DefinitionsPrefix)
                          THEN Some(Join(trim_start_matches(r, DefinitionsPrefix)))
                          ELSE None
              IN /\ IsNone(name) =>
                       /\ Len(Res.errs) = 1
                       /\ Res.errs[1].value = ExternalReference(r)
                 /\ (IsSome(name) /\ IsNone(get(definitions, name[1]))) =>
                       /\ Len(Res.errs) = 1
                       /\ Res.errs[1].value = MissingDefinition(name[1])
        /\ (HasSub /\ IsSome(Sub.all_of)) =>
              LET all_of == Sub.all_of[1]
                  rs == BranchResults(all_of)
              IN /\ \A i \in 1..Len(all_of) :
                        all_of[i] = RefMissing =>
                            /\ Len(rs[i].errs) = 1
                            /\ rs[i].errs[1].value = MissingDefinition("Missing")
                 /\ LET pre == Concat([i \in 1..Len(all_of) |-> rs[i].errs])
                    IN Len(pre) <= Len(Res.errs)
                       /\ SubSeq(Res.errs, 1, Len(pre)) = pre

\* a value that breaks the constraints next to a missing local reference
C2_Witness ==
    /\ Done
    /\ IsSome(root.reference)
    /\ IsSome(root.subschemas)
    /\ arg_value[1] = StrV("ab")
    /\ Res.errs = <<Error(root.metadata, None, MissingDefinition("Missing"))>>

RECURSIVE Inline(_)
\* schema with every resolvable local reference replaced by its definition
Inline(schema) ==
    IF Kind(schema) = "Bool" THEN schema
    ELSE LET o == Payload(schema)
             name == IF IsSome(o.reference)
                     THEN local_definition(o.reference[1]) ELSE None
             target == IF IsSome(name) THEN get(definitions, name[1]) ELSE None
             InOpt(x) == IF IsSome(x) THEN Some(Inline(x[1])) ELSE None
             InList(x) == IF IsSome(x)
                          THEN Some([i \in 1..Len(x[1]) |-> Inline(x[1][i])])
                          ELSE None
             InMap(m) == [i \in 1..Len(m) |-> <<m[i][1], Inline(m[i][2])>>]
             InItems(x) ==
                 IF IsNone(x) THEN None
                 ELSE IF Kind(x[1]) = "Single"
                      THEN Some(Single(Inline(Payload(x[1]))))
                      ELSE Some(Vec([i \in 1..Len(Payload(x[1])) |->
                                        Inline(Payload(x[1])[i])]))
         IN IF IsSome(target) THEN Inline(target[1])
            ELSE Object(
              [o EXCEPT
                 !.subschemas =
                     IF IsNone(@) THEN None
                     ELSE Some([all_of |-> InList(@[1].all_of),
                                any_of |-> InList(@[1].any_of),
                                one_of |-> InList(@[1].one_of),
                                not |-> InOpt(@[1].not),
                                if_schema |-> InOpt(@[1].if_schema),
                                then_schema |-> InOpt(@[1].then_schema),
                                else_schema |-> InOpt(@[1].else_schema)]),
                 !.array =
                     IF IsNone(@) THEN None
                     ELSE Some([@[1] EXCEPT
                                  !.items = InItems(@),
                                  !.additional_items = InOpt(@),
                                  !.contains = InOpt(@)]),
                 !.object =
                     IF IsNone(@) THEN None
                     ELSE Some([@[1] EXCEPT
                                  !.properties = InMap(@),
                                  !.pattern_properties = InMap(@),
                                  !.additional_properties = InOpt(@),
                                  !.property_names = InOpt(@)])])

\* C3: a node that is a local reference to an existing definition judges a
\* value exactly as the definition written in its place would: same success
\* or failure, same error kinds, same spans.
C3_ReferenceAsInlined ==
    Done => Res = VerifyNode(Inline(Object(root)))

\* C4: on a node with allOf and an instance type the aggregate is the errors
\* of every allOf branch, concatenated in declaration order (not only those
\* of the first failing branch), followed by the errors of the other
\* combinators and then by the leaf errors.
C4_AllOfThenLeaf ==
    (Done /\ HasSub /\ IsSome(Sub.all_of) /\ IsSome(root.instance_type)) =>
        LET all_of == Sub.all_of[1]
            rs == BranchResults(all_of)
        IN Res.errs = Concat([i \in 1..Len(all_of) |-> rs[i].errs])
                      \o PartAnyOf \o PartOneOf \o PartIfThenElse \o PartNot
                      \o PartLeaf

\* two failing allOf branches after a passing one, and a failing leaf check
C4_Witness ==
    /\ Done /\ HasSub /\ IsSome(Sub.all_of) /\ IsSome(root.instance_type)
    /\ Len(Sub.all_of[1]) = 3
    /\ LET rs == BranchResults(Sub.all_of[1])
       IN rs[1].ok /\ ~rs[2].ok /\ ~rs[3].ok /\ rs[2].errs # rs[3].errs
    /\ PartLeaf # <<>>
    /\ Len(Res.errs) = 3

\* what C5 expects anyOf to contribute at the root node
ExpectAnyOf(errs) ==
    LET any_of == Sub.any_of[1]
        rs == BranchResults(any_of)
    IN IF \E i \in 1..Len(any_of) : rs[i].ok
       THEN errs = <<>>
       ELSE /\ Len(errs) = 1
            /\ errs[1].value[1] = "NoneValid"
            /\ errs[1].value[2].errors = [i \in 1..Len(any_of) |-> rs[i].errs]

\* C5: for anyOf every branch is evaluated; the combinator contributes no
\* error when at least one branch validates, and otherwise exactly one
\* NoneValid error whose nested list holds one error set per listed branch,
\* in declaration order, each being that branch's errors.
C5_AnyOf ==
    (Done /\ HasSub /\ IsSome(Sub.any_of)) =>
        Between(PartAllOf,
                PartOneOf \o PartIfThenElse \o PartNot \o PartLeaf,
                ExpectAnyOf)

\* no branch of three validates: one NoneValid holding three error sets
C5_Witness ==
    /\ Done /\ HasSub /\ IsSome(Sub.any_of)
    /\ Len(Sub.any_of[1]) = 3
    /\ \A i \in 1..3 : ~BranchResults(Sub.any_of[1])[i].ok
    /\ Sub.any_of[1][1] # Sub.any_of[1][2]
    /\ Kind(Res.errs[1].value) = "NoneValid"
    /\ Len(Payload(Res.errs[1].value).errors) = 3

\* what C6 expects oneOf to contribute at the root node
ExpectOneOf(errs) ==
    LET one_of == Sub.one_of[1]
        rs == BranchResults(one_of)
        valid == SelectSeq([i \in 1..Len(one_of) |-> i], LAMBDA i : rs[i].ok)
    IN IF Len(valid) = 1
       THEN errs = <<>>
       ELSE /\ Len(errs) = 1
            /\ IF valid = <<>>
               THEN errs[1].value[1] = "NoneValid"
               ELSE /\ errs[1].value[1] = "MoreThanOneValid"
                    /\ errs[1].value[2].matched =
                           [k \in 1..Len(valid) |-> metadata_of(one_of[valid[k]])]

\* C6: oneOf contributes no error exactly when exactly one branch validates;
\* with none it contributes exactly one NoneValid error; with two or more
\* exactly one MoreThanOneValid error whose matched list holds the metadata
\* of exactly the branches that validated, in declaration order.
C6_OneOf ==
    (Done /\ HasSub /\ IsSome(Sub.one_of)) =>
        Between(PartAllOf \o PartAnyOf,
                PartIfThenElse \o PartNot \o PartLeaf,
                ExpectOneOf)

\* branches 1 and 3 of three validate, branch 2 does not
C6_Witness ==
    /\ Done /\ HasSub /\ IsSome(Sub.one_of)
    /\ Len(Sub.one_of[1]) = 3
    /\ LET rs == BranchResults(Sub.one_of[1]) IN rs[1].ok /\ ~rs[2].ok /\ rs[3].ok
    /\ metadata_of(Sub.one_of[1][1]) # metadata_of(Sub.one_of[1][2])
    /\ Kind(Res.errs[1].value) = "MoreThanOneValid"
    /\ Len(Payload(Res.errs[1].value).matched) = 2

\* what C7 expects if/then/else to contribute at the root node
ExpectIfThenElse ==
    IF VerifyNode(Sub.if_schema[1]).ok
    THEN IF IsSome(Sub.then_schema)
         THEN VerifyNode(Sub.then_schema[1]).errs ELSE <<>>
    ELSE IF IsSome(Sub.else_schema)
         THEN VerifyNode(Sub.else_schema[1]).errs ELSE <<>>

\* C7: on every node with `if`: when the value validates against `if` the
\* errors of `then` are added; when it does not and `else` is present the
\* errors of `else` are added; the errors of `if` itself never appear.
C7_IfThenElse ==
    (Done /\ HasSub /\ IsSome(Sub.if_schema)) =>
        Res.errs = PartAllOf \o PartAnyOf \o PartOneOf
                   \o ExpectIfThenElse \o PartNot \o PartLeaf

\* what C8 expects `not` to contribute at the root node
ExpectNot ==
    IF VerifyNode(Sub.not[1]).ok
    THEN <<Error(root.metadata, Val.span, ValidNot(metadata_of(Sub.not[1])))>>
    ELSE <<>>

\* C8: `not` contributes exactly one ValidNot error, carrying the metadata of
\* the `not` sub-schema, when the value validates against that sub-schema,
\* and contributes no error (the sub-schema's own errors included) otherwise.
C8_Not ==
    (Done /\ HasSub /\ IsSome(Sub.not)) =>
        Res.errs = PartAllOf \o PartAnyOf \o PartOneOf \o PartIfThenElse
                   \o ExpectNot \o PartLeaf

\* the value validates against a `not` sub-schema that has metadata
C8_Witness ==
    /\ Done /\ HasSub /\ IsSome(Sub.not)
    /\ IsSome(metadata_of(Sub.not[1]))
    /\ \E i \in 1..Len(Res.errs) :
          Res.errs[i].value = ValidNot(metadata_of(Sub.not[1]))

\* the root node without its leaf constraint groups
NoLeafGroups ==
    [root EXCEPT !.enum_values = None, !.number = None, !.string = None,
                 !.array = None, !.object = None]

LeafKinds ==
    {"InvalidType", "InvalidEnumValue", "NotMultipleOf", "LessThanExpected",
     "MoreThanExpected", "NoPatternMatch", "TooLong", "TooShort", "NotUnique",
     "MustContain", "NotEnoughItems", "TooManyItems", "NotEnoughProperties",
     "TooManyProperties", "RequiredProperty", "UnknownProperty"}

\* C9: on a node with no reference and no instance type the cursor is never
\* driven: the enum, numeric, string, array and object constraints written
\* on the node produce no error, whatever the value.
C9_NoTypeNoLeaf ==
    (Done /\ IsNone(root.reference) /\ IsNone(root.instance_type)) =>
        /\ Res = VerifyNode(Object(NoLeafGroups))
        /\ \A i \in 1..Len(Res.errs) :
              Res.errs[i].meta = root.metadata =>
                  Kind(Res.errs[i].value) \notin LeafKinds

\* a value outside the enum of an untyped node is accepted
C9_Witness ==
    /\ Done
    /\ IsNone(root.reference) /\ IsNone(root.instance_type)
    /\ IsSome(root.enum_values)
    /\ ~check_enum(arg_value[1], root, None).ok
    /\ Res.ok

\* the leaf constraint groups of the root that the value breaks, each group
\* judged on its own
BrokenGroups ==
    LET v == arg_value[1]
        expected == CASE Kind(v) = "Int" -> "Integer"
                      [] Kind(v) = "Str" -> "String"
                      [] OTHER -> "Null"
    IN (IF check_type(expected, root, None).ok THEN {} ELSE {"type"})
       \cup (IF check_enum(v, root, None).ok THEN {} ELSE {"enum"})
       \cup (IF Kind(v) = "Int" /\ ~check_number(Payload(v), root, None).ok
             THEN {"number"} ELSE {})
       \cup (IF Kind(v) = "Str" /\ ~check_string(Payload(v), root, None).ok
             THEN {"string"} ELSE {})

GroupOf(kind) ==
    CASE kind = "InvalidType" -> "type"
      [] kind = "InvalidEnumValue" -> "enum"
      [] kind \in {"NotMultipleOf", "LessThanExpected", "MoreThanExpected"} -> "number"
      [] kind \in {"NoPatternMatch", "TooLong", "TooShort", "InvalidPattern"} -> "string"
      [] OTHER -> "other"

\* C10: the independent leaf checks of a node all run and their errors
\* accumulate: a value that breaks both the type and the enum, or both the
\* enum and a numeric bound, gets an error from each group it breaks.
C10_LeafChecksAccumulate ==
    (Done /\ IsNone(root.reference) /\ IsNone(root.subschemas)
          /\ IsSome(root.instance_type)
          /\ Kind(arg_value[1]) \in {"Int", "Str"}) =>
        BrokenGroups = {GroupOf(Kind(Res.errs[i].value)) : i \in 1..Len(Res.errs)}

-----------------------------------------------------------------------------
(* The protocol run: what the calls made so far on the cursor add up to *)

Out == outcome[1]
Node == Payload(cursor.schema)

\* the call of the given kind was made on the cursor and returned Ok
Opened(op) == \E i \in 1..Len(calls) : calls[i].op = op /\ calls[i].r.ok

\* the cursor is the sub-validator of an object node / of an array node
MapOpen == Opened("map") /\ Kind(cursor.schema) = "Object" /\ ~cursor.tagged_allow
SeqOpen == Opened("seq") /\ Kind(cursor.schema) = "Object" /\ ~cursor.tagged_allow

Ended == phase = "ended"

\* the errors of the given kind in a list of errors
OfKind(errs, kind) == SelectSeq(errs, LAMBDA e : Kind(e.value) = kind)

\* the required names of the node, and the keys handed to validate_string_key
Required == IF IsSome(Node.object) THEN Node.object[1].required ELSE <<>>
InSeq(x, seq) == \E i \in 1..Len(seq) : seq[i] = x
KeysSeen ==
    {Payload(calls[i].arg) : i \in {j \in 1..Len(calls) : calls[j].op = "string_key"}}

\* C11: on the map sub-validator of an object node with required set R, the
\* remaining-required set is R at validate_map and is always R without the
\* keys handed to validate_string_key so far, whatever other calls were
\* made; end reports exactly one RequiredProperty for each name of R that was
\* never handed in and none for any other name.
C11_RequiredProperties ==
    MapOpen =>
        /\ cursor.obj_required = SelectSeq(Required, LAMBDA n : n \notin KeysSeen)
        /\ Ended =>
              LET reported == OfKind(Out.errs, "RequiredProperty") IN
              /\ \A i \in 1..Len(reported) :
                    /\ InSeq(Payload(reported[i].value), Required)
                    /\ Payload(reported[i].value) \notin KeysSeen
                    /\ \A j \in 1..Len(reported) :
                          reported[j].value = reported[i].value => j = i
              /\ \A i \in 1..Len(Required) :
                    Required[i] \notin KeysSeen =>
                        InSeq(RequiredProperty(Required[i]),
                              [j \in 1..Len(reported) |-> reported[j].value])

\* a map that has one of two required names ended, after a value was judged
C11_Witness ==
    /\ MapOpen /\ Ended
    /\ Len(Required) = 2
    /\ Cardinality(KeysSeen) = 1
    /\ \E i \in 1..Len(Required) : Required[i] \in KeysSeen
    /\ \E i \in 1..Len(calls) : calls[i].op = "value"
    /\ Len(OfKind(Out.errs, "RequiredProperty")) = 1

\* the validate_element calls made so far, in order
ElementCalls == SelectSeq(calls, LAMBDA c : c.op = "element")
LastIs(op) == calls # <<>> /\ calls[Len(calls)].op = op

\* the span validate_element computes for the element at zero-based position i
ValueSpan(i) == combined(cursor.parent_span, ElementSpan(i))

UniqueNode == IsSome(Node.array) /\ Node.array[1].unique_items = Some(TRUE)

\* C12: with uniqueItems set, an element equal to an earlier element of the
\* sequence yields exactly one NotUnique whose duplicate is its own span and
\* whose first is the span of the earliest equal element; an element with no
\* earlier equal element yields none.
C12_NotUnique ==
    (SeqOpen /\ UniqueNode /\ LastIs("element")) =>
        LET n == Len(ElementCalls)
            earlier == {j \in 1..(n - 1) : ElementCalls[j].arg = ElementCalls[n].arg}
            earliest == CHOOSE j \in earlier : \A k \in earlier : j <= k
            reported == OfKind(Out.errs, "NotUnique")
        IN IF earlier = {}
           THEN reported = <<>>
           ELSE /\ Len(reported) = 1
                /\ reported[1].value =
                       NotUnique(ValueSpan(earliest - 1), ValueSpan(n - 1))

\* the judgment of schema s, on its own, for value v met at span sp under the
\* cursor's parent span
JudgeChild(s, sp, v) ==
    validate_inner(with_parent_span(new(s), cursor.parent_span),
                   Spanned(KeySpans, sp, v))

\* the item schema of the node that governs zero-based position i, if any
ItemSchemaAt(i) ==
    LET arr == Node.array[1] IN
    IF IsNone(arr.items) THEN None
    ELSE IF Kind(arr.items[1]) = "Single" THEN Some(Payload(arr.items[1]))
         ELSE IF i < Len(Payload(arr.items[1]))
              THEN Some(Payload(arr.items[1])[i + 1])
              ELSE arr.additional_items

NotOfKind(errs, kind) == SelectSeq(errs, LAMBDA e : Kind(e.value) # kind)

\* C13: the element at zero-based position i is judged by the single items
\* schema, or by the i-th listed schema, or beyond the list by additionalItems
\* when it is declared, and by no item schema otherwise: besides NotUnique,
\* validate_element returns exactly the errors that schema gives on its own.
C13_ItemSchema ==
    (SeqOpen /\ IsSome(Node.array) /\ LastIs("element")) =>
        LET i == Len(ElementCalls) - 1
            v == calls[Len(calls)].arg
            chosen == ItemSchemaAt(i)
        IN NotOfKind(Out.errs, "NotUnique") =
              IF IsNone(chosen) THEN <<>>
              ELSE JudgeChild(chosen[1], ElementSpan(i), v).errs

\* the third element of a sequence whose list has two schemas, rejected by
\* additionalItems
C13_Witness ==
    /\ SeqOpen /\ IsSome(Node.array) /\ LastIs("element")
    /\ Len(ElementCalls) = 3
    /\ IsSome(Node.array[1].items)
    /\ Kind(Node.array[1].items[1]) = "Vec"
    /\ Len(Payload(Node.array[1].items[1])) = 2
    /\ IsSome(Node.array[1].additional_items)
    /\ OfKind(Out.errs, "Never") # <<>>

\* the contains schema of the node, and whether an element handed in so far
\* validates against it on its own
Contains ==
    IF IsSome(Node.array) THEN Node.array[1].contains ELSE None
ContainsMet ==
    \E j \in 1..Len(ElementCalls) :
        JudgeChild(Contains[1], ElementSpan(j - 1), ElementCalls[j].arg).ok

\* 1 when the condition holds, else 0
Count(cond) == IF cond THEN 1 ELSE 0

\* C14: the contains obligation is held by the sub-validator until one
\* element validates against the contains schema and is dropped from then
\* on; end returns exactly one MustContain iff contains is declared and no
\* element validated against it, one NotEnoughItems iff n < minItems, one
\* TooManyItems iff n > maxItems, n being the number of validate_element
\* calls, and no other error.
C14_SeqEnd ==
    SeqOpen =>
        LET n == Len(ElementCalls)
            unmet == IsSome(Contains) /\ ~ContainsMet
            few == /\ IsSome(Node.array) /\ IsSome(Node.array[1].min_items)
                   /\ n < Node.array[1].min_items[1]
            many == /\ IsSome(Node.array) /\ IsSome(Node.array[1].max_items)
                    /\ n > Node.array[1].max_items[1]
        IN /\ cursor.arr_item_count = n
           /\ cursor.arr_contains = IF unmet THEN Contains ELSE None
           /\ Ended =>
                 /\ Len(OfKind(Out.errs, "MustContain")) = Count(unmet)
                 /\ Len(OfKind(Out.errs, "NotEnoughItems")) = Count(few)
                 /\ Len(OfKind(Out.errs, "TooManyItems")) = Count(many)
                 /\ Len(Out.errs) = Count(unmet) + Count(few) + Count(many)

\* a sequence of three elements, none of them a string, ended under
\* contains and maxItems
C14_Witness ==
    /\ SeqOpen /\ Ended
    /\ Len(ElementCalls) = 3
    /\ IsSome(Contains)
    /\ Len(OfKind(Out.errs, "MustContain")) = 1
    /\ Len(OfKind(Out.errs, "TooManyItems")) = 1

\* the entry whose value was just judged: the key is the call before
EntryKey == Payload(calls[Len(calls) - 1].arg)
EntryValue == calls[Len(calls)].arg
JudgeEntry(s) == JudgeChild(s, Some(<<EntryKey>>), EntryValue)

\* the first pattern entry, in the order of the map, that is reached and
\* either does not compile or matches the key; 0 when there is none
FirstPattern(patterns, key) ==
    LET hits == {i \in 1..Len(patterns) :
                    ~RegexCompiles(patterns[i][1])
                    \/ RegexIsMatch(patterns[i][1], key)}
    IN IF hits = {} THEN 0 ELSE CHOOSE i \in hits : \A j \in hits : i <= j

\* C15: a map entry's value is judged by exactly one schema: the property
\* named like the key; else the first pattern entry that matches the key, a
\* pattern that does not compile when reached giving InvalidPattern; else
\* additionalProperties, whose rejection by the schema false is reported as
\* UnknownProperty; else by no schema, and the value is accepted.
C15_ValueSchema ==
    (MapOpen /\ LastIs("value")) =>
        IF IsNone(Node.object) THEN Out = Ok
        ELSE LET obj == Node.object[1]
                 named == get(obj.properties, EntryKey)
                 p == FirstPattern(obj.pattern_properties, EntryKey)
             IN IF IsSome(named) THEN Out = JudgeEntry(named[1])
                ELSE IF p # 0
                THEN IF RegexCompiles(obj.pattern_properties[p][1])
                     THEN Out = JudgeEntry(obj.pattern_properties[p][2])
                     ELSE /\ Len(Out.errs) = 1
                          /\ Out.errs[1].value =
                                InvalidPattern(obj.pattern_properties[p][1])
                ELSE IF IsSome(obj.additional_properties)
                THEN LET j == JudgeEntry(obj.additional_properties[1]) IN
                     /\ Out.ok = j.ok
                     /\ ~j.ok =>
                           IF j.errs[1].value = Never
                           THEN /\ Len(Out.errs) = 1
                                /\ Out.errs[1].value = UnknownProperty
                           ELSE Out.errs = j.errs
                ELSE Out = Ok

\* the key "a" has a named property and matches a pattern; its value is a
\* string, which the pattern's schema accepts and the named one rejects
C15_Witness ==
    /\ MapOpen /\ LastIs("value")
    /\ EntryKey = "a"
    /\ EntryValue = StrV("a")
    /\ IsSome(Node.object)
    /\ IsSome(get(Node.object[1].properties, "a"))
    /\ FirstPattern(Node.object[1].pattern_properties, "a") # 0
    /\ OfKind(Out.errs, "InvalidType") # <<>>

\* the call made by the step, and the tag a validate_tag step announces
StepOp == calls'[Len(calls')].op
StepTag == Payload(calls'[Len(calls')].arg)

\* a validate_tag step that returns Ok on an object node: the cursor's
\* schema becomes the match, or the cursor starts to accept everything
TagResolves ==
    (calls' # calls /\ StepOp = "tag" /\ outcome'[1].ok
     /\ Kind(cursor.schema) = "Object") =>
        LET obj == Node.object[1]
            named == get(obj.properties, StepTag)
            p == FirstPattern(obj.pattern_properties, StepTag)
            matched(s) == cursor' = [cursor EXCEPT !.schema = s]
        IN IF IsNone(Node.object)
           THEN cursor' = [cursor EXCEPT !.tagged_allow = TRUE]
           ELSE IF IsSome(named) THEN matched(named[1])
           ELSE IF p # 0 THEN matched(obj.pattern_properties[p][2])
           ELSE IF IsSome(obj.additional_properties)
                THEN matched(obj.additional_properties[1])
                ELSE cursor' = [cursor EXCEPT !.tagged_allow = TRUE]

\* a later call on a cursor that accepts everything returns Ok and leaves
\* the cursor as it was
AcceptsAll ==
    (calls' # calls /\ cursor.tagged_allow
     /\ StepOp \in {"element", "key", "string_key", "value", "end"}) =>
        outcome' = Some(Ok) /\ cursor' = cursor

\* C16: validate_tag makes the schema of the property named like the tag,
\* else of the first pattern entry matching it, else additionalProperties,
\* the schema governing the payload; when nothing matches, the cursor
\* accepts everything: every later validate_element, validate_key,
\* validate_string_key, validate_value and end returns Ok, whatever it is
\* given.
C16_Tag == [][TagResolves /\ AcceptsAll]_vars

\* an unmatched tag, then a map with a key that has no string form and its
\* value, ended
C16_Witness ==
    /\ phase = "ended"
    /\ cursor.tagged_allow
    /\ IsSome(Node.object)
    /\ Opened("tag") /\ Opened("map") /\ Opened("key") /\ Opened("value")
    /\ Out = Ok

-----------------------------------------------------------------------------
(* verify_value on nested values: documents whose nodes sit one and two    *)
(* levels below the root node, and values nested to the same depth.        *)

Titled(title, sub) ==
    Object(WithSub([SchemaObject EXCEPT !.metadata = Meta(title)], sub))

\* nodes that judge a member: leaf constraints and combinators
PathLeaves ==
    {Object(Constrained), StringSchema,
     Titled("V", [NoSubschemas EXCEPT
                     !.any_of = Some(<<IntegerSchema, Bool(FALSE)>>)]),
     Titled("W", [NoSubschemas EXCEPT
                     !.one_of = Some(<<Bool(TRUE), IntegerSchema>>)]),
     Titled("X", [NoSubschemas EXCEPT !.not = Some(IntegerSchema)])}

\* a map node and a sequence node around a member node
PathObject(m) ==
    [Typed("Object", "O") EXCEPT
        !.object = Some([NoObject EXCEPT
                            !.properties = <<<<"a", m>>>>,
                            !.required = <<"a", "b">>,
                            !.additional_properties = Some(Bool(FALSE)),
                            !.max_properties = Some(1)])]

PathArray(m) ==
    [Typed("Array", "L") EXCEPT
        !.array = Some([NoArray EXCEPT !.items = Some(Single(m)),
                                       !.contains = Some(StringSchema),
                                       !.min_items = Some(3)])]

PathInner ==
    PathLeaves \cup {Object(PathObject(m)) : m \in PathLeaves}
               \cup {Object(PathArray(m)) : m \in PathLeaves}

PathRoots ==
    {PathObject(m) : m \in PathInner} \cup {PathArray(m) : m \in PathInner}

PathMembers == {IntV(1), IntV(2), StrV("ab")}

PathValues ==
       PathMembers
    \cup {MapV(<<<<StrV("a"), v>>, <<StrV("c"), v>>>>) : v \in PathMembers}
    \cup {SeqV(<<v, IntV(2)>>) : v \in PathMembers}
    \cup {MapV(<<<<StrV("a"), MapV(<<<<StrV("a"), v>>, <<StrV("c"), v>>>>)>>>>) :
             v \in PathMembers}
    \cup {MapV(<<<<StrV("a"), SeqV(<<IntV(1), v>>)>>>>) : v \in PathMembers}
    \cup {SeqV(<<IntV(1), SeqV(<<IntV(1), v>>)>>) : v \in PathMembers}
    \cup {SeqV(<<MapV(<<<<StrV("a"), v>>>>), MapV(<<>>)>>) : v \in PathMembers}
    \cup {MapV(<<<<StrV("a"), MapV(<<<<BoolV(TRUE), IntV(1)>>>>)>>>>),
          MapV(<<<<BoolV(TRUE), IntV(1)>>>>)}

PathInit ==
    /\ root \in PathRoots
    /\ definitions = Definitions
    /\ arg_value = None
    /\ arg_span = None
    /\ result = None
    /\ pc = "idle"
    /\ self_check = None
    /\ stack = <<>>
    /\ NoProtocol /\ NoAdapter /\ NoSpans

PathNext ==
    \/ \E v \in PathValues : VerifyValue(v)
    \/ Drop

SpecPath == PathInit /\ [][PathNext]_vars

-----------------------------------------------------------------------------
(* A sequence under uniqueItems, call by call: validate_seq, then          *)
(* validate_element for elements of every shape, then end.                 *)

UniqueNodes ==
    {Object([Typed("Array", "L") EXCEPT
                !.array = Some([NoArray EXCEPT !.unique_items = Some(TRUE),
                                               !.items = it])]) :
        it \in {None, Some(Single(Bool(TRUE)))}}

UniqueElements ==
    {NullV, SeqV(<<>>), MapV(<<>>), BoolV(TRUE), IntV(1),
     StrV("ab"), MapV(<<<<StrV("a"), StrV("b")>>>>),
     SeqV(<<BoolV(TRUE)>>), SeqV(<<SeqV(<<>>), SeqV(<<>>)>>),
     SeqV(<<StrV("a"), StrV("b")>>), SeqV(<<StrV("ab")>>)}

UniqueInit ==
    /\ NoVerify /\ NoAdapter /\ NoSpans
    /\ definitions = Definitions
    /\ \E s \in UniqueNodes, sp \in ParentSpans :
          cursor = with_parent_span(new(s), sp)
    /\ phase = "new"
    /\ outcome = None
    /\ calls = <<>>

UniqueNext ==
    \/ SeqCall
    \/ \E v \in UniqueElements : ElementCall(v)
    \/ SeqEndCall

SpecUnique == UniqueInit /\ [][UniqueNext]_vars

-----------------------------------------------------------------------------
(* The self-check pass: a document is checked with RootSchema::verify,     *)
(* before or between the verify_value calls made on it.                    *)

BadPatternNode ==
    Object([Typed("String", "P") EXCEPT
               !.string = Some([NoString EXCEPT !.pattern = Some(BadPattern)])])

\* a node with an unresolved reference and a pattern that does not compile
TwoDefects ==
    Object([Payload(BadPatternNode) EXCEPT
               !.reference = Some(<<DefinitionsPrefix, "Missing">>)])

DocLeaves ==
    {IntegerSchema, RefA, RefMissing, RefExternal, BadPatternNode, TwoDefects}

ObjectWith(o) == [Typed("Object", "O") EXCEPT !.object = Some(o)]
ArrayWith(a) == [Typed("Array", "L") EXCEPT !.array = Some(a)]

\* the places of a node where a sub-schema m can sit
DocAround(m) ==
    {WithSub(SchemaObject,
             [NoSubschemas EXCEPT !.all_of = Some(<<IntegerSchema, m>>)]),
     WithSub(SchemaObject, [NoSubschemas EXCEPT !.one_of = Some(<<m>>)]),
     WithSub(SchemaObject,
             [NoSubschemas EXCEPT !.any_of = Some(<<m, IntegerSchema>>)]),
     WithSub(SchemaObject, [NoSubschemas EXCEPT !.not = Some(m)]),
     WithSub(SchemaObject,
             [NoSubschemas EXCEPT !.if_schema = Some(IntegerSchema),
                                  !.then_schema = Some(m),
                                  !.else_schema = Some(m)]),
     WithSub(SchemaObject,
             [NoSubschemas EXCEPT !.if_schema = Some(m)]),
     ObjectWith([NoObject EXCEPT !.properties = <<<<"a", m>>>>]),
     ObjectWith([NoObject EXCEPT
                    !.properties = <<<<"a", m>>, <<"c", RefExternal>>>>]),
     ObjectWith([NoObject EXCEPT !.additional_properties = Some(m)]),
     ObjectWith([NoObject EXCEPT !.pattern_properties = <<<<"^a", m>>>>]),
     ObjectWith([NoObject EXCEPT
                    !.pattern_properties = <<<<BadPattern, m>>>>]),
     ObjectWith([NoObject EXCEPT !.property_names = Some(m)]),
     ArrayWith([NoArray EXCEPT !.items = Some(Single(m))]),
     ArrayWith([NoArray EXCEPT !.items = Some(Vec(<<IntegerSchema>>)),
                               !.additional_items = Some(m)]),
     ArrayWith([NoArray EXCEPT !.contains = Some(m)])}

DocRoots ==
       {Payload(m) : m \in DocLeaves}
    \cup UNION {DocAround(m) : m \in DocLeaves}
    \cup UNION {DocAround(Object(n)) : n \in DocAround(RefMissing)}

DocTables ==
    {<<>>,
     <<<<"A", Object(Constrained)>>, <<"B", Bool(FALSE)>>>>,
     Definitions,
     <<<<"A", RefExternal>>, <<"B", BadPatternNode>>>>}

DocValues ==
    {IntV(1), StrV("a"), SeqV(<<IntV(1), StrV("a")>>),
     MapV(<<<<StrV("a"), IntV(1)>>>>), MapV(<<<<StrV("c"), StrV("a")>>>>)}

DocumentInit ==
    /\ root \in DocRoots
    /\ definitions \in DocTables
    /\ arg_value = None
    /\ arg_span = None
    /\ result = None
    /\ pc = "idle"
    /\ self_check = None
    /\ stack = <<>>
    /\ NoProtocol /\ NoAdapter /\ NoSpans

\* Verify::verify on the RootSchema
SelfVerify ==
    /\ self_check = None
    /\ self_check' = Some(verify(root, definitions))
    /\ UNCHANGED <<root, definitions, arg_value, arg_span, result, pc, stack,
                   protocolVars, adapterVars, spanVars>>

DocumentNext ==
    \/ SelfVerify
    \/ \E v \in DocValues : VerifyValue(v)
    \/ Drop

SpecDocument == DocumentInit /\ [][DocumentNext]_vars

-----------------------------------------------------------------------------
(* The recursion of verify_value and of the self-check pass, activation by *)
(* activation, on documents whose definitions refer to one another and to  *)
(* themselves.  The engine has no depth guard; the model stops entering    *)
(* at MaxDepth activations.                                                *)

MaxDepth == 6

RefT == Object(RefTo(<<DefinitionsPrefix, "T">>))

CallTables ==
    {\* T refers to itself below properties
     <<<<"A", Object(Constrained)>>,
       <<"T", Object(ObjectWith([NoObject EXCEPT
                                    !.properties = <<<<"a", RefT>>>>]))>>>>,
     \* A refers to itself below items, T below a combinator and then
     \* additionalProperties
     <<<<"A", Object(ArrayWith([NoArray EXCEPT !.items = Some(Single(RefA))]))>>,
       <<"T", Titled("T", [NoSubschemas EXCEPT
                 !.any_of = Some(<<IntegerSchema,
                     Object(ObjectWith([NoObject EXCEPT
                         !.additional_properties = Some(RefT)]))>>)])>>>>,
     \* A is a reference to itself
     <<<<"A", RefA>>, <<"T", IntegerSchema>>>>,
     \* A and T refer to each other through combinators
     <<<<"A", Titled("A", [NoSubschemas EXCEPT !.all_of = Some(<<RefT>>)])>>,
       <<"T", Titled("T", [NoSubschemas EXCEPT
                 !.any_of = Some(<<IntegerSchema, RefA>>)])>>>>}

CallRoots ==
       {Payload(RefA), Payload(RefT)}
    \cup UNION {DocAround(m) : m \in {RefA, RefT, IntegerSchema}}

CallValues ==
    {IntV(1), StrV("a"),
     MapV(<<<<StrV("a"), MapV(<<<<StrV("a"), IntV(1)>>>>)>>>>),
     SeqV(<<IntV(1), SeqV(<<SeqV(<<>>)>>)>>)}

CallsInit ==
    /\ root \in CallRoots
    /\ definitions \in CallTables
    /\ arg_value = None
    /\ arg_span = None
    /\ result = None
    /\ pc = "idle"
    /\ self_check = None
    /\ stack = <<>>
    /\ NoProtocol /\ NoAdapter /\ NoSpans

CallFrame ==
    UNCHANGED <<root, definitions, arg_value, arg_span, result, pc, self_check,
                protocolVars, adapterVars, spanVars>>

\* verify_value_with_span: validate_inner on the root node
EnterVerifyValue(v) ==
    /\ stack = <<>>
    /\ stack' = <<ValidateInnerFrame(Object(root), v)>>
    /\ CallFrame

\* RootSchema::verify: verify_schema on a definition
EnterVerifyDefinition(i) ==
    /\ stack = <<>>
    /\ stack' = <<VerifySchemaFrame(definitions[i][2])>>
    /\ CallFrame

\* RootSchema::verify: verify_schema_object on the root node
EnterVerifyRoot ==
    /\ stack = <<>>
    /\ stack' = <<VerifySchemaFrame(Object(root))>>
    /\ CallFrame

\* the activation on top starts one of its calls
EnterCall ==
    /\ stack # <<>>
    /\ Len(stack) < MaxDepth
    /\ \E c \in calls_of(stack[Len(stack)]) : stack' = Append(stack, c)
    /\ CallFrame

\* the activation on top returns
ReturnCall ==
    /\ stack # <<>>
    /\ stack' = SubSeq(stack, 1, Len(stack) - 1)
    /\ CallFrame

CallsNext ==
    \/ \E v \in CallValues : EnterVerifyValue(v)
    \/ \E i \in 1..Len(definitions) : EnterVerifyDefinition(i)
    \/ EnterVerifyRoot
    \/ EnterCall
    \/ ReturnCall

SpecCalls == CallsInit /\ [][CallsNext]_vars

-----------------------------------------------------------------------------
(* Claims about one Validate::validate call through the serde adapter      *)
(* (SpecAdapter).                                                          *)

Called_validate == IsSome(judged)
Left == inner[1]
GivenValue == given[1].value

\* C17: every sequence or map sub-validator the adapter obtained from
\* validate_seq or validate_map has had `end` called on it when the call is
\* over (end takes the sub-validator out of the adapter), also when an
\* element, a key or a value was rejected.
C17_EndCalled ==
    (Called_validate /\ Kind(judged[1]) = "Returned")
        => IsNone(Left.validator_seq) /\ IsNone(Left.validator_map)

\* C18: a call of validate on any value, tuple and struct variants
\* included, and any schema comes back with Ok or Err: nothing aborts.
C18_NoAbort ==
    Called_validate => Kind(judged[1]) = "Returned"

\* C19: validate never returns Ok without the validator it was given having
\* been taken for a top-level judgment.
C19_Judged ==
    (Called_validate /\ Kind(judged[1]) = "Returned" /\ Payload(judged[1]).ok)
        => IsNone(Left.validator)

-----------------------------------------------------------------------------
(* Claims about SpanExt::combine (SpecSpan).                               *)

\* C20: combining a receiver a with an argument b gives a ++ b when both
\* are present, the present one when exactly one is present, in either
\* position, and absent when both are absent.
C20_Combine ==
    IsSome(span_out) =>
        span_out[1] =
            IF IsSome(span_self) /\ IsSome(span_arg)
            THEN Some(span_self[1] \o span_arg[1])
            ELSE IF IsSome(span_self) THEN span_self
            ELSE IF IsSome(span_arg) THEN span_arg
            ELSE None

-----------------------------------------------------------------------------
(* Claims about the spans of the errors of nested values (SpecPath).  A     *)
(* position is a value inside the value of the call, with the path of map  *)
(* keys and sequence indices that leads to it and the node that judges it. *)

SpanOf(path) == IF path = <<>> THEN None ELSE Some(path)

TypeName(v) ==
    CASE Kind(v) = "Int" -> "Integer"
      [] Kind(v) = "Str" -> "String"
      [] Kind(v) = "Bool" -> "Boolean"
      [] Kind(v) = "Seq" -> "Array"
      [] Kind(v) = "Map" -> "Object"
      [] OTHER -> "Null"

Position(path, o, v, direct) ==
    [path |-> path, node |-> o, value |-> v, direct |-> direct]

\* the branches listed under allOf, anyOf and oneOf of a node
BranchesOf(o) ==
    IF IsNone(o.subschemas) THEN <<>>
    ELSE LET list(f) == IF IsSome(f) THEN f[1] ELSE <<>>
         IN list(o.subschemas[1].all_of) \o list(o.subschemas[1].any_of)
            \o list(o.subschemas[1].one_of)

\* the positions of v under the schema s; a member is reached when its
\* collection has the node's type; `direct` says that no combinator branch
\* lies on the way
RECURSIVE Positions(_, _, _, _)
Positions(s, v, path, direct) ==
    IF Kind(s) = "Bool" THEN {}
    ELSE LET o == Payload(s)
             reached == IsSome(o.instance_type)
                        /\ check_type(TypeName(v), o, None).ok
         IN {Position(path, o, v, direct)}
            \cup UNION {Positions(BranchesOf(o)[b], v, path, FALSE) :
                           b \in 1..Len(BranchesOf(o))}
            \cup (IF reached /\ Kind(v) = "Seq" /\ IsSome(o.array)
                      /\ IsSome(o.array[1].items)
                      /\ Kind(o.array[1].items[1]) = "Single"
                   THEN UNION {Positions(Payload(o.array[1].items[1]),
                                         Payload(v)[i],
                                         path \o <<ToString(i - 1)>>, direct) :
                                  i \in 1..Len(Payload(v))}
                   ELSE {})
            \cup (IF reached /\ Kind(v) = "Map" /\ IsSome(o.object)
                   THEN UNION {LET k == Payload(v)[i][1]
                                   m == IF Kind(k) = "Str"
                                        THEN get(o.object[1].properties,
                                                 Payload(k))
                                        ELSE None
                               IN IF IsSome(m)
                                  THEN Positions(m[1], Payload(v)[i][2],
                                                 path \o <<Payload(k)>>, direct)
                                  ELSE {} :
                                  i \in 1..Len(Payload(v))}
                   ELSE {})

CallPositions == Positions(Object(root), arg_value[1], <<>>, TRUE)

LeafErrorKinds ==
    {"InvalidType", "InvalidEnumValue", "NotMultipleOf", "LessThanExpected",
     "MoreThanExpected", "NoPatternMatch", "TooLong", "TooShort"}

\* the leaf-constraint errors node o gives to the value v itself, not to its
\* members, when it reports them at the span sp
OwnLeaf(o, v, sp) ==
    IF IsNone(o.instance_type) THEN <<>>
    ELSE LET c == [new(Object(o)) EXCEPT !.combined_span = sp]
         IN CASE Kind(v) = "Int" -> validate_i64(c, Payload(v)).errs
              [] Kind(v) = "Str" -> validate_str(c, Payload(v)).errs
              [] Kind(v) = "Bool" -> validate_bool(c, Payload(v)).errs
              [] OTHER -> check_type(TypeName(v), o, sp).errs

\* the errors of a result, with the errors kept inside NoneValid
RaisedErrors(errs) ==
    errs \o Concat([i \in 1..Len(errs) |->
                       IF Kind(errs[i].value) = "NoneValid"
                       THEN Concat(Payload(errs[i].value).errors)
                       ELSE <<>>])

\* C21: every leaf-constraint error (type, enumeration, numeric, string)
\* raised for a value reached through the keys and indices k1..kn carries
\* the span [k1, .., kn], and every such error of a value reached without
\* passing a combinator is in the result.
C21_LeafSpans ==
    Done =>
        /\ \A i \in 1..Len(RaisedErrors(Res.errs)) :
              LET e == RaisedErrors(Res.errs)[i] IN
              Kind(e.value) \in LeafErrorKinds =>
                  \E p \in CallPositions :
                      InSeq(e, OwnLeaf(p.node, p.value, SpanOf(p.path)))
        /\ \A p \in CallPositions :
              p.direct =>
                  \A j \in 1..Len(OwnLeaf(p.node, p.value, SpanOf(p.path))) :
                      InSeq(OwnLeaf(p.node, p.value, SpanOf(p.path))[j],
                            Res.errs)

\* a leaf error two levels below the root, under a key and then an index
C21_Witness ==
    /\ Done
    /\ \E i \in 1..Len(Res.errs) :
          /\ Kind(Res.errs[i].value) \in LeafErrorKinds
          /\ Res.errs[i].span = Some(<<"a", "1">>)

EndErrorKinds ==
    {"RequiredProperty", "NotEnoughProperties", "TooManyProperties",
     "MustContain", "NotEnoughItems", "TooManyItems"}

\* the position is a collection of the node's type whose traversal reaches
\* its end: every key of a map is a string
Traversed(p) ==
    /\ p.direct
    /\ Kind(p.value) \in {"Seq", "Map"}
    /\ IsSome(p.node.instance_type)
    /\ check_type(TypeName(p.value), p.node, None).ok
    /\ Kind(p.value) = "Map" =>
           \A i \in 1..Len(Payload(p.value)) :
               Kind(Payload(p.value)[i][1]) = "Str"

\* C27: an error reported at the end of a collection carries the span of
\* the collection, [k1, .., kn] for one nested at k1..kn and absent for the
\* root value: each end error is located at a collection the node of its
\* metadata judges, and a traversed map or sequence has its
\* RequiredProperty and NotEnoughItems errors at its own path.
C27_EndSpans ==
    Done =>
        /\ \A i \in 1..Len(Res.errs) :
              Kind(Res.errs[i].value) \in EndErrorKinds =>
                  \E p \in CallPositions :
                      /\ Traversed(p)
                      /\ Res.errs[i].meta = p.node.metadata
                      /\ Res.errs[i].span = SpanOf(p.path)
        /\ \A p \in CallPositions :
              Traversed(p) =>
                  /\ (Kind(p.value) = "Map" /\ IsSome(p.node.object)) =>
                        \A r \in 1..Len(p.node.object[1].required) :
                            LET name == p.node.object[1].required[r] IN
                            (\A j \in 1..Len(Payload(p.value)) :
                                 Payload(p.value)[j][1] # StrV(name))
                            => InSeq(Error(p.node.metadata, SpanOf(p.path),
                                           RequiredProperty(name)),
                                     Res.errs)
                  /\ (Kind(p.value) = "Seq" /\ IsSome(p.node.array)
                         /\ IsSome(p.node.array[1].min_items)
                         /\ Len(Payload(p.value)) < p.node.array[1].min_items[1])
                        => InSeq(Error(p.node.metadata, SpanOf(p.path),
                                       NotEnoughItems(
                                           p.node.array[1].min_items[1])),
                                 Res.errs)

CombinatorErrorKinds == {"NoneValid", "MoreThanOneValid", "ValidNot"}

\* C28: combinator errors, the rejection of an entry by a false
\* additionalProperties and KeyNotString carry the full path from the root:
\* [k1, .., kn] for a value judged by the node of the error's metadata, the
\* path of the map followed by the key for an entry or a key.
C28_FullPath ==
    Done =>
        \A i \in 1..Len(Res.errs) :
            LET e == Res.errs[i] IN
            /\ Kind(e.value) \in CombinatorErrorKinds =>
                  \E p \in CallPositions :
                      e.meta = p.node.metadata /\ e.span = SpanOf(p.path)
            /\ Kind(e.value) \in {"UnknownProperty", "KeyNotString"} =>
                  \E p \in CallPositions :
                      /\ Kind(p.value) = "Map"
                      /\ e.meta = p.node.metadata
                      /\ \E j \in 1..Len(Payload(p.value)) :
                            e.span = Some(p.path \o
                                KeySpans_key(KeySpans,
                                             Payload(p.value)[j][1])[2][1])

-----------------------------------------------------------------------------
(* Claims about SpannedInner::use_span (SpecLocation).                     *)

\* the validator the adapter holds
Held(k) ==
    IF IsSome(k.validator) THEN k.validator[1]
    ELSE IF IsSome(k.validator_seq) THEN k.validator_seq[1]
    ELSE k.validator_map[1]

\* the location state: the adapter's current span and the validator's
\* parent span, span and combined span
Location(k) ==
    <<k.span, Held(k).parent_span, Held(k).span, Held(k).combined_span>>

\* C24: applying NewSpan::NoChange leaves the location state unchanged, also
\* when the adapter's current span is absent.
C24_NoChange ==
    [][last_new_span' = Some(NoChange) => Location(inner'[1]) = Location(inner[1])]_vars

-----------------------------------------------------------------------------
(* Claims about the self-check pass (SpecDocument).                        *)

Checked == IsSome(self_check)
CheckErrors == self_check[1].errs

\* the defects of one node: <<document path, InvalidSchema value>>
OwnDefects(o, path) ==
       (IF IsNone(o.reference) THEN {}
        ELSE IF IsNone(local_definition(o.reference[1]))
             THEN {<<path, ExternalReference(o.reference[1])>>}
             ELSE IF IsNone(get(definitions,
                                local_definition(o.reference[1])[1]))
                  THEN {<<path, MissingDefinition(
                                   local_definition(o.reference[1])[1])>>}
                  ELSE {})
    \cup (IF IsSome(o.string) /\ IsSome(o.string[1].pattern)
              /\ ~RegexCompiles(o.string[1].pattern[1])
           THEN {<<path \o <<"pattern">>,
                   InvalidPattern(o.string[1].pattern[1])>>}
           ELSE {})
    \cup (IF IsNone(o.object) THEN {}
           ELSE {<<path \o <<"patternProperties", k>>, InvalidPattern(k)>> :
                    k \in {p \in {o.object[1].pattern_properties[i][1] :
                                     i \in 1..Len(o.object[1].pattern_properties)} :
                              ~RegexCompiles(p)}})

ListChildren(list, path, keyword) ==
    IF IsNone(list) THEN {}
    ELSE {<<list[1][i], path \o <<keyword, ToString(i - 1)>>>> :
             i \in 1..Len(list[1])}

OptionalChild(s, path, keyword) ==
    IF IsNone(s) THEN {} ELSE {<<s[1], path \o <<keyword>>>>}

\* the sub-schemas of a node under combinators, properties and
\* additionalProperties, each with its document path
DocChildren(o, path) ==
       (IF IsNone(o.subschemas) THEN {}
        ELSE LET sub == o.subschemas[1] IN
                  ListChildren(sub.all_of, path, "allOf")
             \cup ListChildren(sub.any_of, path, "anyOf")
             \cup ListChildren(sub.one_of, path, "oneOf")
             \cup OptionalChild(sub.not, path, "not")
             \cup OptionalChild(sub.if_schema, path, "if")
             \cup OptionalChild(sub.then_schema, path, "then")
             \cup OptionalChild(sub.else_schema, path, "else"))
    \cup (IF IsNone(o.object) THEN {}
           ELSE      {<<o.object[1].properties[i][2],
                        path \o <<"properties", o.object[1].properties[i][1]>>>> :
                         i \in 1..Len(o.object[1].properties)}
                \cup OptionalChild(o.object[1].additional_properties, path,
                                   "additionalProperties"))

\* the sub-schemas under patternProperties
PatternChildren(o, path) ==
    IF IsNone(o.object) THEN {}
    ELSE {<<o.object[1].pattern_properties[i][2],
            path \o <<"patternProperties",
                      o.object[1].pattern_properties[i][1]>>>> :
             i \in 1..Len(o.object[1].pattern_properties)}

RECURSIVE Defects(_, _, _)
Defects(s, path, patterns) ==
    IF Kind(s) = "Bool" THEN {}
    ELSE OwnDefects(Payload(s), path)
         \cup UNION {Defects(c[1], c[2], patterns) :
                        c \in DocChildren(Payload(s), path)
                               \cup (IF patterns
                                      THEN PatternChildren(Payload(s), path)
                                      ELSE {})}

DocumentDefects(patterns) ==
         UNION {Defects(definitions[i][2],
                        <<"definitions", definitions[i][1]>>, patterns) :
                   i \in 1..Len(definitions)}
    \cup Defects(Object(root), <<>>, patterns)

Reported == {<<CheckErrors[i].span[1], CheckErrors[i].value>> :
                i \in 1..Len(CheckErrors)}

\* C22: the self-check pass reports, with the document path of the node as
\* span, every unresolved reference, non-local reference and non-compiling
\* regex of every node reachable from the definitions or the root through
\* combinators, properties, additionalProperties and the sub-schemas under
\* patternProperties.
C22_EveryDefect ==
    Checked => DocumentDefects(TRUE) \subseteq Reported

\* C23: the self-check pass never stops at the first error: its result holds
\* exactly one error per defect of the nodes it walks, whatever other
\* defects the same node, its siblings, the root or other definitions have.
C23_NoShortCircuit ==
    Checked =>
        /\ Reported = DocumentDefects(FALSE)
        /\ Len(CheckErrors) = Cardinality(DocumentDefects(FALSE))

InvalidSchemaKinds ==
    {"MissingDefinition", "ExternalReference", "InvalidPattern"}

\* C25: once the self-check pass has returned Ok for the document, no
\* verify_value call on it produces an InvalidSchema error.
C25_CheckedDocument ==
    (Checked /\ self_check[1].ok /\ Done) =>
        \A i \in 1..Len(RaisedErrors(Res.errs)) :
            Kind(RaisedErrors(Res.errs)[i].value) \notin InvalidSchemaKinds

-----------------------------------------------------------------------------
(* The payload of a tagged variant (SpecAdapter).                          *)

IsTupleVariant == Kind(given[1].value) = "TupleVariant"
VariantName == Payload(given[1].value)[1]
VariantItems == Payload(given[1].value)[2]

\* the adapter and the validator as validate_tag leaves them
Tagged == variant_tag(inner[1], VariantName)
TagMatched == Tagged.ok /\ ~Tagged.validator.tagged_allow

\* validate_inner on the matched sub-schema, for the payload on its own
PayloadAsInner ==
    validate_inner(Tagged.validator,
                   Spanned(Tagged.self.spans, Tagged.self.span,
                           SeqV(VariantItems)))

\* a Result without the spans of its errors
Unlocated(r) ==
    [ok |-> r.ok,
     errs |-> [i \in 1..Len(r.errs) |->
                  [meta |-> r.errs[i].meta, value |-> r.errs[i].value]]]

\* C26: once validate_tag has matched the tag of a tuple variant to a
\* sub-schema P, the call returns for the payload the errors validate_inner
\* returns for the same payload against P (compared without their spans).
C26_PayloadAsInner ==
    [][(judged = None /\ IsTupleVariant /\ TagMatched)
          => /\ Kind(judged'[1]) = "Returned"
             /\ Unlocated(Payload(judged'[1])) = Unlocated(PayloadAsInner)]_vars

-----------------------------------------------------------------------------
(* The uniqueness hash (SpecUnique).                                       *)

\* C30: with uniqueItems set, NotUnique is reported for an element only if
\* an earlier element of the same sequence has the same structure and
\* content.
C30_OnlyEqualElements ==
    (SeqOpen /\ UniqueNode /\ LastIs("element")) =>
        LET n == Len(ElementCalls)
        IN OfKind(Out.errs, "NotUnique") # <<>> =>
              \E j \in 1..(n - 1) : ElementCalls[j].arg = ElementCalls[n].arg

-----------------------------------------------------------------------------
(* Termination (SpecCalls).                                                *)

\* the definitions a schema names through references and combinator
\* branches alone
RECURSIVE NamedBy(_)
NamedBy(s) ==
    IF Kind(s) = "Bool" THEN {}
    ELSE IF IsSome(Payload(s).reference)
         THEN (IF IsSome(local_definition(Payload(s).reference[1]))
               THEN {local_definition(Payload(s).reference[1])[1]} ELSE {})
         ELSE UNION {NamedBy(b) : b \in Combined(Payload(s))}

Defined(names) == {n \in names : IsSome(get(definitions, n))}

\* the definitions reached from `names` in at most k more steps
RECURSIVE ReachedFrom(_, _)
ReachedFrom(names, k) ==
    IF k = 0 THEN names
    ELSE ReachedFrom(
            names \cup UNION {NamedBy(get(definitions, n)[1]) :
                                n \in Defined(names)},
            k - 1)

\* no definition reaches itself through references and combinator branches
NoReferenceCycle ==
    \A i \in 1..Len(definitions) :
        definitions[i][1] \notin
            ReachedFrom(NamedBy(definitions[i][2]), Len(definitions))

Max(set) == IF set = {} THEN 0 ELSE CHOOSE x \in set : \A y \in set : y <= x

\* the longest chain of references and combinator branches from a schema
RECURSIVE ChainLength(_)
ChainLength(s) ==
    IF Kind(s) = "Bool" THEN 0
    ELSE IF IsSome(Payload(s).reference)
         THEN 1 + Max({ChainLength(Payload(c).schema) :
                          c \in reference_calls(Payload(s), NullV)})
         ELSE 1 + Max({ChainLength(b) : b \in Combined(Payload(s))})

RECURSIVE Sum(_)
Sum(seq) == IF seq = <<>> THEN 0 ELSE Head(seq) + Sum(Tail(seq))

\* the number of nodes of a value, keys included
RECURSIVE ValueSize(_)
ValueSize(v) ==
    IF Kind(v) = "Seq"
    THEN 1 + Sum([i \in 1..Len(Payload(v)) |-> ValueSize(Payload(v)[i])])
    ELSE IF Kind(v) = "Map"
         THEN 1 + Sum([i \in 1..Len(Payload(v)) |->
                          ValueSize(Payload(v)[i][1])
                          + ValueSize(Payload(v)[i][2])])
         ELSE 1

\* the number of nodes of a schema, all its sub-schemas included
RECURSIVE SchemaSize(_)
SchemaSize(s) ==
    IF Kind(s) = "Bool" THEN 1
    ELSE LET o == Payload(s)
             below(set) == Sum([i \in 1..Len(set) |-> SchemaSize(set[i])])
             opt(x) == IF IsNone(x) THEN 0 ELSE SchemaSize(x[1])
             list(x) == IF IsNone(x) THEN 0 ELSE below(x[1])
         IN 1
            + (IF IsNone(o.subschemas) THEN 0
               ELSE LET subs == o.subschemas[1] IN
                    list(subs.all_of) + list(subs.any_of) + list(subs.one_of)
                    + opt(subs.not) + opt(subs.if_schema)
                    + opt(subs.then_schema) + opt(subs.else_schema))
            + (IF IsNone(o.object) THEN 0
               ELSE LET obj == o.object[1] IN
                    below([i \in 1..Len(obj.properties) |->
                              obj.properties[i][2]])
                    + below([i \in 1..Len(obj.pattern_properties) |->
                                obj.pattern_properties[i][2]])
                    + opt(obj.additional_properties) + opt(obj.property_names))
            + (IF IsNone(o.array) THEN 0
               ELSE LET arr == o.array[1] IN
                    (IF IsNone(arr.items) THEN 0
                     ELSE IF Kind(arr.items[1]) = "Single"
                          THEN SchemaSize(Payload(arr.items[1]))
                          ELSE below(Payload(arr.items[1])))
                    + opt(arr.additional_items) + opt(arr.contains))

Top(stk) == stk[Len(stk)]
Nested == Len(stack) >= 1 /\ Len(stack') = Len(stack) + 1

\* the callee judges a smaller value, or the same value with a schema from
\* which the chains of references and combinator branches are shorter
Descends(caller, callee) ==
    \/ ValueSize(callee.value) < ValueSize(caller.value)
    \/ /\ ValueSize(callee.value) = ValueSize(caller.value)
       /\ ChainLength(callee.schema) < ChainLength(caller.schema)

\* C29: verify_value terminates on every document in which no definition
\* reaches itself through references and combinator branches alone, and the
\* self-check pass terminates on every document: each activation a
\* validate_inner activation starts is strictly below it in a well-founded
\* order (value size, then chain length), and each activation a
\* verify_schema activation starts is on a strictly smaller schema.
C29_Terminates ==
    [][Nested =>
          IF Kind(Top(stack)) = "validate_inner"
          THEN NoReferenceCycle =>
                  Descends(Payload(Top(stack)), Payload(Top(stack')))
          ELSE SchemaSize(Payload(Top(stack')).schema)
                  < SchemaSize(Payload(Top(stack)).schema)]_vars

\* a verify_value call four activations deep, through a reference and a
\* property, on a document whose definition T refers to itself
C29_Witness ==
    /\ NoReferenceCycle
    /\ Len(stack) >= 4
    /\ Kind(Top(stack)) = "validate_inner"
    /\ Payload(stack[1]).schema = RefT
    /\ \E i \in 2..Len(stack) : Payload(stack[i]).schema = RefT

====
